---- MODULE Spec2Model ----
(***************************************************************************)
(* A model of the traffic simulation and control-protocol engine of vice:  *)
(* the local simulation (Sim, src/sim.go) and the network protocol adapter *)
(* (VATSIMServer, src/ui.go), which implement the same ATC command         *)
(* surface.  Times are in whole seconds; the empty string is Go's "" and   *)
(* stands for "no controller" / "no approach" exactly as in the source.    *)
(***************************************************************************)
EXTENDS Integers, Sequences, FiniteSets, TLC

VARIABLES
    Aircraft,           \* Sim.Aircraft: callsign -> aircraft record
    Handoffs,           \* Sim.Handoffs: callsign -> deadline (virtual time)
    currentTime,        \* Sim.currentTime (virtual time)
    lastUpdateTime,     \* Sim.lastUpdateTime (wall-clock reference point)
    wallTime,           \* the wall clock (time.Now()) when the last call was made
    SimRate,            \* Sim.SimRate
    Paused,             \* Sim.Paused
    ArrivalGroupRates,  \* Sim.ArrivalGroupRates: group -> airport -> rate
    NextArrivalSpawn,   \* Sim.NextArrivalSpawn: group -> time
    DepartureRates,     \* Sim.DepartureRates: airport -> runway -> category -> rate
    NextDepartureSpawn, \* Sim.NextDepartureSpawn: airport -> runway -> time
    DepartureChallenge, \* Sim.DepartureChallenge, in percent
    lastDeparture,      \* lastDeparture of each of sim.Scenario.DepartureRunways (0 = nil)
    spawnLog,           \* history: per spawn key, the aircraft SpawnAircraft has created
    removedEvents,      \* RemovedAircraftEvents the Sim's subscription has not read yet
    pc,                 \* "new" after NewSim, "running" once Prespawn has returned,
                        \* "disconnected" after Disconnect, "panicked" once a
                        \* run-time panic has ended the program
    aircraft,           \* VATSIMServer.aircraft: callsign -> aircraft record
    trackingControllers,\* VATSIMServer.trackingControllers: callsign -> controller
    outboundHandoffs,   \* VATSIMServer.outboundHandoffs: callsign -> destination controller
    inboundHandoffs,    \* VATSIMServer.inboundHandoffs: callsign -> offering controller
    controllers,        \* VATSIMServer.controllers (the callsigns known)
    connection,         \* VATSIMServer.connection # nil
    atcValid,           \* VATSIMServer.atcValid
    vatsimTime,         \* the connection's current time, in minutes
    call,               \* the operation invoked by the last step, with its arguments
    ret,                \* the error it returned ("nil" = success)
    posted              \* the events it published, in order

simVars == <<Aircraft, Handoffs, currentTime, lastUpdateTime, wallTime, SimRate, Paused,
             ArrivalGroupRates, NextArrivalSpawn, DepartureRates, NextDepartureSpawn,
             DepartureChallenge, lastDeparture, spawnLog, removedEvents, pc>>
clockVars == <<currentTime, lastUpdateTime, wallTime, SimRate, Paused>>
spawnVars == <<ArrivalGroupRates, NextArrivalSpawn, DepartureRates, NextDepartureSpawn,
               DepartureChallenge, lastDeparture, spawnLog>>
\* the part of them the scenario fixes when the simulation is created
rateVars == <<ArrivalGroupRates, DepartureRates, DepartureChallenge>>
\* what a track/handoff command never touches
simRest == <<clockVars, spawnVars, removedEvents, pc>>
ioVars == <<call, ret, posted>>
vatsimVars == <<aircraft, trackingControllers, outboundHandoffs, inboundHandoffs,
                controllers, connection, atcValid, vatsimTime>>
vars == <<simVars, vatsimVars, ioVars>>

----------------------------------------------------------------------------
\* Bounds of the model

\* virtual time at which the model stops ticking
MaxTime == 13
\* wall-clock seconds between two update calls that are not within the same second
TickSeconds == 3

----------------------------------------------------------------------------
\* Error values (sim.go:20-31)

ErrNoAircraftForCallsign == "ErrNoAircraftForCallsign"
ErrOtherControllerHasTrack == "ErrOtherControllerHasTrack"
ErrNotBeingHandedOffToMe == "ErrNotBeingHandedOffToMe"
ErrNoController == "ErrNoController"
ErrScratchpadTooLong == "ErrScratchpadTooLong"
NoError == "nil"

----------------------------------------------------------------------------
\* Scenario reference data (immutable for a session)

\* the callsigns sampleAircraft can draw
Callsigns == {"AAL12"}

\* the callsigns commands are tried with: those of aircraft, and one no aircraft has
CommandCallsigns == Callsigns \cup {"N0NE"}

\* sim.Scenario.Callsign: the position the user controls
ScenarioCallsign == "JFK_APP"

\* scenarioGroup.ControlPositions: callsign -> sector id
ControlPositions == [c \in {"JFK_APP", "NY_CTR", "LGA_DEP"} |->
                        CASE c = "JFK_APP" -> [Callsign |-> c, SectorId |-> "2G"]
                          [] c = "NY_CTR"  -> [Callsign |-> c, SectorId |-> "N56"]
                          [] c = "LGA_DEP" -> [Callsign |-> c, SectorId |-> "1L"]]

\* sim.Scenario.Controllers: the controllers active in the scenario
ScenarioControllers == {"NY_CTR"}

\* the controller names a Handoff command is tried with
HandoffTargets == {"NY_CTR", "N56", "1L"}

\* the scratchpad strings a SetScratchpad command is tried with
ScratchpadInputs == {"ABC", "ABCD"}

\* an airline of a route, as the scenario names it
Airline(icao, fleet) == [ICAO |-> icao, Fleet |-> fleet]

\* scenarioGroup.ArrivalGroups: group -> the arrivals of the group.  Airlines
\* gives, for each airport the arrival has a route for, the airlines that fly
\* it; Waypoints carry the fix name and whether the waypoint has the handoff
\* command.  Group "B" serves KBFI with airlines, a fleet and an aircraft type
\* the database does not know, next to one it knows.
ArrivalGroups == [g \in {"G", "H", "B"} |->
    IF g = "B"
    THEN << [InitialController |-> "NY_CTR", CruiseAltitude |-> 11000,
             InitialAltitude |-> 9000, InitialSpeed |-> 250,
             ClearedAltitude |-> 6000, SpeedRestriction |-> 210,
             Scratchpad |-> "", ExpectApproach |-> "", InitialHeading |-> 90,
             Airlines |-> [a \in {"KBFI"} |->
                             {Airline("AAL", ""), Airline("XXX", ""),
                              Airline("AAL", "cargo"), Airline("UAL", "")}],
             Waypoints |-> << [Fix |-> "AAA", Handoff |-> TRUE],
                              [Fix |-> "CCC", Handoff |-> FALSE] >>] >>
    ELSE IF g = "H"
    THEN << [InitialController |-> "NY_CTR", CruiseAltitude |-> 11000,
             InitialAltitude |-> 9000, InitialSpeed |-> 250,
             ClearedAltitude |-> 6000, SpeedRestriction |-> 210,
             Scratchpad |-> "", ExpectApproach |-> "", InitialHeading |-> 90,
             Airlines |-> [a \in {"KSEA"} |-> {Airline("AAL", "")}],
             Waypoints |-> << [Fix |-> "AAA", Handoff |-> TRUE],
                              [Fix |-> "CCC", Handoff |-> FALSE] >>] >>
    ELSE
    << [InitialController |-> "NY_CTR", CruiseAltitude |-> 11000,
        InitialAltitude |-> 9000, InitialSpeed |-> 250,
        ClearedAltitude |-> 6000, SpeedRestriction |-> 210,
        Scratchpad |-> "", ExpectApproach |-> "", InitialHeading |-> 90,
        Airlines |-> [a \in {"KSEA"} |-> {Airline("AAL", "")}],
        Waypoints |-> << [Fix |-> "AAA", Handoff |-> TRUE],
                         [Fix |-> "BBB", Handoff |-> FALSE],
                         [Fix |-> "CCC", Handoff |-> FALSE] >>],
       [InitialController |-> "", CruiseAltitude |-> 0,
        InitialAltitude |-> 7000, InitialSpeed |-> 250,
        ClearedAltitude |-> 0, SpeedRestriction |-> 0,
        Scratchpad |-> "", ExpectApproach |-> "", InitialHeading |-> 90,
        Airlines |-> [a \in {"KSEA"} |-> {Airline("AAL", "")}],
        Waypoints |-> << [Fix |-> "DDD", Handoff |-> FALSE],
                         [Fix |-> "CCC", Handoff |-> FALSE] >>] >>]

\* Performance of the one aircraft type of the model's database
\* (ac.Performance.Speed.Landing / .Max)
Performance == [Landing |-> 130, Max |-> 340]

\* database.Airlines (airline -> fleet -> the aircraft types of the fleet) and
\* the aircraft types database.AircraftPerformance has an entry for
database ==
    [ Airlines |-> [al \in {"AAL", "UAL"} |-> [f \in {"default"} |->
                       IF al = "AAL" THEN {"B738"} ELSE {"ZZZZ"}]],
      AircraftPerformance |-> {"B738"} ]

\* sampleAircraft: what its lookups can give for an airline and a fleet, TRUE
\* for an aircraft and FALSE for nil
sampleAircraft(icao, fleet) ==
    IF icao \notin DOMAIN database.Airlines THEN {FALSE}
    ELSE LET al == database.Airlines[icao]
             fl == IF fleet = "" THEN "default" ELSE fleet
         IN  IF fl \notin DOMAIN al THEN {FALSE}
             ELSE { (t \in database.AircraftPerformance) : t \in al[fl] }

----------------------------------------------------------------------------
\* Events published on the event stream

Ev(type, callsign) == [ev |-> type, callsign |-> callsign, controller |-> ""]
EvC(type, callsign, controller) == [ev |-> type, callsign |-> callsign, controller |-> controller]

\* the removals recorded for a set of aircraft (both servers range over a
\* map, and controlUpdates keeps a set: the order of the sequence carries no
\* meaning)
RECURSIVE Removals(_)
Removals(S) ==
    IF S = {} THEN <<>>
    ELSE LET c == CHOOSE x \in S : TRUE
         IN  << Ev("RemovedAircraft", c) >> \o Removals(S \ {c})

\* the record kept of the last call: its name, callsign and string argument
Call(op, callsign, arg) == [op |-> op, callsign |-> callsign, arg |-> arg]

\* a command that returns the error e: nothing of the simulation changes
SimFail(e) ==
    /\ ret' = e
    /\ posted' = <<>>
    /\ UNCHANGED simVars

----------------------------------------------------------------------------
\* Sim: the local simulation's commands

\* Sim.GetController: by callsign, else by the sector id of an active controller;
\* "" is the nil result
Sim_GetController(callsign) ==
    IF callsign \in DOMAIN ControlPositions
    THEN ControlPositions[callsign].Callsign
    ELSE IF \E c \in DOMAIN ControlPositions :
                /\ ControlPositions[c].SectorId = callsign
                /\ c \in ScenarioControllers
         THEN (CHOOSE c \in DOMAIN ControlPositions :
                /\ ControlPositions[c].SectorId = callsign
                /\ c \in ScenarioControllers)
         ELSE ""

Sim_SetScratchpad(callsign, scratchpad) ==
    /\ call' = Call("SetScratchpad", callsign, scratchpad)
    /\ IF callsign \notin DOMAIN Aircraft
       THEN SimFail(ErrNoAircraftForCallsign)
       ELSE IF Aircraft[callsign].TrackingController # ScenarioCallsign
       THEN SimFail(ErrOtherControllerHasTrack)
       ELSE /\ Aircraft' = [Aircraft EXCEPT ![callsign].Scratchpad = scratchpad]
            /\ posted' = << Ev("ModifiedAircraft", callsign) >>
            /\ ret' = NoError
            /\ UNCHANGED <<Handoffs, simRest>>

Sim_InitiateTrack(callsign) ==
    /\ call' = Call("InitiateTrack", callsign, "")
    /\ IF callsign \notin DOMAIN Aircraft
       THEN SimFail(ErrNoAircraftForCallsign)
       ELSE IF Aircraft[callsign].TrackingController # ""
       THEN SimFail(ErrOtherControllerHasTrack)
       ELSE /\ Aircraft' = [Aircraft EXCEPT ![callsign].TrackingController = ScenarioCallsign]
            /\ posted' = << Ev("ModifiedAircraft", callsign), Ev("InitiatedTrack", callsign) >>
            /\ ret' = NoError
            /\ UNCHANGED <<Handoffs, simRest>>

Sim_DropTrack(callsign) ==
    /\ call' = Call("DropTrack", callsign, "")
    /\ IF callsign \notin DOMAIN Aircraft
       THEN SimFail(ErrNoAircraftForCallsign)
       ELSE IF Aircraft[callsign].TrackingController # ScenarioCallsign
       THEN SimFail(ErrOtherControllerHasTrack)
       ELSE /\ Aircraft' = [Aircraft EXCEPT ![callsign].TrackingController = ""]
            /\ posted' = << Ev("ModifiedAircraft", callsign), Ev("DroppedTrack", callsign) >>
            /\ ret' = NoError
            /\ UNCHANGED <<Handoffs, simRest>>

\* acceptDelay := 2 + rand.Intn(10)
AcceptDelayBase == 2
AcceptDelaySpan == 10
\* a draw over a span two seconds too wide
AcceptDelays_TooWide == AcceptDelayBase .. (AcceptDelayBase + AcceptDelaySpan + 1)

AcceptDelays == { AcceptDelayBase + r : r \in 0 .. (AcceptDelaySpan - 1) }

Sim_Handoff(callsign, controller) ==
    /\ call' = Call("Handoff", callsign, controller)
    /\ IF callsign \notin DOMAIN Aircraft
       THEN SimFail(ErrNoAircraftForCallsign)
       ELSE IF Aircraft[callsign].TrackingController # ScenarioCallsign
       THEN SimFail(ErrOtherControllerHasTrack)
       ELSE IF Sim_GetController(controller) = ""
       THEN SimFail(ErrNoController)
       ELSE \E acceptDelay \in AcceptDelays :
            /\ Aircraft' = [Aircraft EXCEPT ![callsign].OutboundHandoffController =
                                                Sim_GetController(controller)]
            /\ posted' = << Ev("ModifiedAircraft", callsign) >>
            /\ Handoffs' = [c \in DOMAIN Handoffs \cup {callsign} |->
                               IF c = callsign THEN currentTime + acceptDelay
                                               ELSE Handoffs[c]]
            /\ ret' = NoError
            /\ UNCHANGED simRest

Sim_AcceptHandoff(callsign) ==
    /\ call' = Call("AcceptHandoff", callsign, "")
    /\ IF callsign \notin DOMAIN Aircraft
       THEN SimFail(ErrNoAircraftForCallsign)
       ELSE IF Aircraft[callsign].InboundHandoffController # ScenarioCallsign
       THEN SimFail(ErrNotBeingHandedOffToMe)
       ELSE /\ Aircraft' = [Aircraft EXCEPT ![callsign].InboundHandoffController = "",
                                            ![callsign].TrackingController = ScenarioCallsign]
            /\ posted' = << EvC("AcceptedHandoff", callsign, ScenarioCallsign),
                            Ev("ModifiedAircraft", callsign) >>
            /\ ret' = NoError
            /\ UNCHANGED <<Handoffs, simRest>>

\* a cancel that gives the track up together with the offer
Sim_CancelHandoff_DropsTrack(callsign) ==
    /\ call' = Call("CancelHandoff", callsign, "")
    /\ IF callsign \notin DOMAIN Aircraft
       THEN SimFail(ErrNoAircraftForCallsign)
       ELSE IF Aircraft[callsign].TrackingController # ScenarioCallsign
       THEN SimFail(ErrOtherControllerHasTrack)
       ELSE /\ Aircraft' = [Aircraft EXCEPT ![callsign].OutboundHandoffController = "",
                                            ![callsign].TrackingController = ""]
            /\ posted' = << Ev("ModifiedAircraft", callsign) >>
            /\ ret' = NoError
            /\ UNCHANGED <<Handoffs, simRest>>

Sim_CancelHandoff(callsign) ==
    /\ call' = Call("CancelHandoff", callsign, "")
    /\ IF callsign \notin DOMAIN Aircraft
       THEN SimFail(ErrNoAircraftForCallsign)
       ELSE IF Aircraft[callsign].TrackingController # ScenarioCallsign
       THEN SimFail(ErrOtherControllerHasTrack)
       ELSE /\ Aircraft' = [Aircraft EXCEPT ![callsign].OutboundHandoffController = ""]
            /\ posted' = << Ev("ModifiedAircraft", callsign) >>
            /\ ret' = NoError
            /\ UNCHANGED <<Handoffs, simRest>>

\* the commands the Sim leaves unimplemented: "return nil // UNIMPLEMENTED"
SimUnimplemented == {"SetSquawk", "SetSquawkAutomatic", "SetTemporaryAltitude",
                     "AmendFlightPlan", "PushFlightStrip", "RejectHandoff", "PointOut"}

Sim_Unimplemented(op, callsign) ==
    /\ call' = Call(op, callsign, "")
    /\ ret' = NoError
    /\ posted' = <<>>
    /\ UNCHANGED simVars

Sim_DeleteAircraft(callsign) ==
    /\ call' = Call("DeleteAircraft", callsign, "")
    /\ IF callsign \notin DOMAIN Aircraft
       THEN SimFail(ErrNoAircraftForCallsign)
       ELSE /\ posted' = << Ev("RemovedAircraft", callsign) >>
            /\ removedEvents' = removedEvents \cup {callsign}
            /\ Aircraft' = [c \in DOMAIN Aircraft \ {callsign} |-> Aircraft[c]]
            /\ ret' = NoError
            /\ UNCHANGED <<Handoffs, clockVars, spawnVars, pc>>

\* Sim.Disconnect: a removal event for every aircraft, then the Sim gives up its
\* event subscription, and with it the events it had not read. Nothing else of
\* the Sim is assigned. A session is followed up to its disconnection.
Sim_Disconnect ==
    /\ call' = Call("Disconnect", "", "")
    /\ ret' = NoError
    /\ posted' = Removals(DOMAIN Aircraft)
    /\ removedEvents' = {}
    /\ pc' = "disconnected"
    /\ UNCHANGED <<Aircraft, Handoffs, clockVars, spawnVars>>

----------------------------------------------------------------------------
\* Spawning aircraft

RECURSIVE SumRates(_)
\* the sum of the rates of a rate map (the rateSum loops of the source)
SumRates(rates) ==
    IF DOMAIN rates = {} THEN 0
    ELSE LET k == CHOOSE x \in DOMAIN rates : TRUE
         IN rates[k] + SumRates([x \in DOMAIN rates \ {k} |-> rates[x]])

\* a test that passes half of the time whenever it can go either way
ReplaceOdds_Even(rate, rateSum) ==
    IF rateSum = 0 THEN IF rate > 0 THEN <<1, 1>> ELSE <<0, 1>>
    ELSE IF rateSum > 0
         THEN IF rate >= rateSum THEN <<1, 1>> ELSE IF rate <= 0 THEN <<0, 1>> ELSE <<1, 2>>
         ELSE IF rate <= rateSum THEN <<1, 1>> ELSE IF rate >= 0 THEN <<0, 1>> ELSE <<1, 2>>

\* One step of the weighted reservoir sampling: the probability <<num, den>>
\* that "rand.Float32() < float32(rate)/float32(rateSum)" passes, for a draw
\* uniform in [0,1).  The test always passes when the quotient is >= 1 (or
\* +Inf), never passes when it is <= 0 (or NaN, -Inf), and passes with the
\* probability of the quotient otherwise.
ReplaceOdds(rate, rateSum) ==
    IF rateSum = 0 THEN IF rate > 0 THEN <<1, 1>> ELSE <<0, 1>>
    ELSE IF rateSum > 0
         THEN IF rate >= rateSum THEN <<1, 1>> ELSE IF rate <= 0 THEN <<0, 1>>
              ELSE <<rate, rateSum>>
         ELSE IF rate <= rateSum THEN <<1, 1>> ELSE IF rate >= 0 THEN <<0, 1>>
              ELSE <<0 - rate, 0 - rateSum>>

\* a test any candidate can pass, whatever its rate
ReservoirReplace_AnyRate(rate, rateSum) == BOOLEAN

\* may candidate `rate` replace the held selection once rateSum includes it?
ReservoirReplace(rate, rateSum) ==
    LET p == ReplaceOdds(rate, rateSum)
    IN  IF p[1] = 0 THEN {FALSE} ELSE IF p[1] = p[2] THEN {TRUE} ELSE BOOLEAN

RECURSIVE PrefixSum(_, _, _)
\* rateSum once the first j candidates of the iteration order have been added
PrefixSum(rates, order, j) ==
    IF j = 0 THEN 0 ELSE PrefixSum(rates, order, j - 1) + rates[order[j]]

RECURSIVE LaterKeep(_, _, _)
\* the probability <<num, den>> that none of the candidates after the k-th
\* of the iteration order replaces the held selection
LaterKeep(rates, order, k) ==
    IF k >= Len(order) THEN <<1, 1>>
    ELSE LET p    == ReplaceOdds(rates[order[k + 1]], PrefixSum(rates, order, k + 1))
             rest == LaterKeep(rates, order, k + 1)
         IN  <<(p[2] - p[1]) * rest[1], p[2] * rest[2]>>

\* the probability <<num, den>> that sampleRateMap returns the k-th candidate
\* of the iteration order: its test passes and no later one does
SelectionOdds(rates, order, k) ==
    LET p    == ReplaceOdds(rates[order[k]], PrefixSum(rates, order, k))
        rest == LaterKeep(rates, order, k)
    IN  <<p[1] * rest[1], p[2] * rest[2]>>

RECURSIVE SampleFrom(_, _, _, _)
\* the results sampleRateMap can return from the candidates `todo`, holding
\* `result` with running sum `rateSum`; the map is iterated in any order
SampleFrom(rates, todo, result, rateSum) ==
    IF todo = {} THEN { [item |-> result, rateSum |-> rateSum] }
    ELSE UNION { UNION { SampleFrom(rates, todo \ {item},
                                    IF replace THEN item ELSE result,
                                    rateSum + rates[item])
                         : replace \in ReservoirReplace(rates[item], rateSum + rates[item]) }
                 : item \in todo }

sampleRateMap(rates) == SampleFrom(rates, DOMAIN rates, "", 0)

\* a year, in seconds: the wait that disables a key whose rate is 0
YearSeconds == 365 * 24 * 3600

\* a randomWait that draws within 20% of the average
randomWait_Wide(rate) ==
    IF rate = 0 THEN {YearSeconds}
    ELSE { w \in (2880 \div rate) .. (4320 \div rate + 1) :
             /\ 80 * 3600 <= 100 * rate * w
             /\ 100 * rate * w < 120 * 3600 }

\* randomWait: the waits (whole seconds) in [.85*avg, 1.15*avg) for avg = 3600/rate
randomWait(rate) ==
    IF rate = 0 THEN {YearSeconds}
    ELSE { w \in (3060 \div rate) .. (4140 \div rate + 1) :
             /\ 85 * 3600 <= 100 * rate * w
             /\ 100 * rate * w < 115 * 3600 }

initialSimSeconds == 45

\* a randomSpawn that schedules a rate of 0 as it schedules a rate of 1
randomSpawn_ZeroAsOne(rate, now) ==
    LET avgWait == IF rate = 0 THEN 3600 ELSE 3600 \div rate
    IN { now + (r - (avgWait \div 2) - initialSimSeconds) : r \in 0 .. (avgWait - 1) }

\* randomSpawn of SetInitialSpawnTimes, relative to `now`
randomSpawn(rate, now) ==
    IF rate = 0 THEN {now + YearSeconds}
    ELSE LET avgWait == 3600 \div rate
         IN { now + (r - (avgWait \div 2) - initialSimSeconds) : r \in 0 .. (avgWait - 1) }

\* Aircraft.RunWaypointCommands: the handoff command of a waypoint offers the
\* aircraft to the user's position
RunWaypointCommands(ac, wp) ==
    IF wp.Handoff THEN [ac EXCEPT !.InboundHandoffController = ScenarioCallsign] ELSE ac

\* sampleAircraft + SpawnArrival: the aircraft built for arrival `arr` to `airportName`
NewArrival(arr, airportName) ==
    [ TrackingController |-> arr.InitialController,
      OutboundHandoffController |-> "",
      InboundHandoffController |-> "",
      Scratchpad |-> arr.Scratchpad,
      FlightPlan |-> [Altitude |-> IF arr.CruiseAltitude = 0 THEN 39000 ELSE arr.CruiseAltitude,
                      ArrivalAirport |-> airportName],
      Altitude |-> arr.InitialAltitude,
      IAS |-> arr.InitialSpeed,
      Heading |-> arr.InitialHeading,
      AssignedAltitude |-> 0,
      AssignedSpeed |-> 0,
      AssignedHeading |-> 0,
      TurnDirection |-> 0,
      AssignedAltitudeAfterSpeed |-> 0,
      AssignedSpeedAfterAltitude |-> 0,
      CrossingAltitude |-> arr.ClearedAltitude,
      CrossingSpeed |-> arr.SpeedRestriction,
      ClearedApproach |-> FALSE,
      Approach |-> arr.ExpectApproach,
      Waypoints |-> arr.Waypoints,
      Performance |-> Performance ]

\* SpawnArrival: the arrivals of the group that have a route to the airport
ArrivalRoutes(airportName, arrivalGroup) ==
    { j \in DOMAIN ArrivalGroups[arrivalGroup] :
        airportName \in DOMAIN ArrivalGroups[arrivalGroup][j].Airlines }

\* SpawnArrival: the aircraft it can return, as <<callsign, aircraft>>
SpawnArrival(airportName, arrivalGroup) ==
    { <<callsign, NewArrival(ArrivalGroups[arrivalGroup][i], airportName)>> :
        callsign \in Callsigns,
        i \in { j \in ArrivalRoutes(airportName, arrivalGroup) :
                  \E al \in ArrivalGroups[arrivalGroup][j].Airlines[airportName] :
                     TRUE \in sampleAircraft(al.ICAO, al.Fleet) } }

\* SpawnArrival: whether it can return nil, for want of a route to the airport
\* or of the aircraft of the airline it sampled
SpawnArrivalNil(airportName, arrivalGroup) ==
    \/ ArrivalRoutes(airportName, arrivalGroup) = {}
    \/ \E j \in ArrivalRoutes(airportName, arrivalGroup) :
         \E al \in ArrivalGroups[arrivalGroup][j].Airlines[airportName] :
            FALSE \in sampleAircraft(al.ICAO, al.Fleet)

\* an addAircraft that stores the new aircraft whatever the registry holds
addAircraft_Replaces(st, callsign, ac) ==
    LET ac1 == RunWaypointCommands(ac, ac.Waypoints[1])
        ac2 == [ac1 EXCEPT !.Waypoints = Tail(ac1.Waypoints)]
    IN [st EXCEPT !.Aircraft = [c \in DOMAIN st.Aircraft \cup {callsign} |->
                                   IF c = callsign THEN ac2 ELSE st.Aircraft[c]],
                  !.posted = Append(st.posted, Ev("AddedAircraft", callsign))]

\* addAircraft of SpawnAircraft, on a state st = [Aircraft, Handoffs,
\* NextArrivalSpawn, posted, now]
addAircraft(st, callsign, ac) ==
    IF callsign \in DOMAIN st.Aircraft THEN st
    ELSE LET ac1 == RunWaypointCommands(ac, ac.Waypoints[1])
             ac2 == [ac1 EXCEPT !.Waypoints = Tail(ac1.Waypoints)]
         IN [st EXCEPT !.Aircraft = [c \in DOMAIN st.Aircraft \cup {callsign} |->
                                        IF c = callsign THEN ac2 ELSE st.Aircraft[c]],
                       !.posted = Append(st.posted, Ev("AddedAircraft", callsign))]

\* the entry of the history of a spawn key once one more aircraft has been
\* created for it, at virtual time now
Logged(entry, now) == [count |-> entry.count + 1, last |-> now]

\* the arrival loop body of SpawnAircraft for one group: the states it can leave
SpawnArrivalGroup(st, group, rates) ==
    IF ~(st.now > st.NextArrivalSpawn[group]) THEN {st}
    ELSE UNION { (IF SpawnArrivalNil(s.item, group) THEN {st} ELSE {})
                 \cup UNION { { [addAircraft(st, sp[1], sp[2]) EXCEPT
                                   !.NextArrivalSpawn[group] = st.now + w,
                                   !.spawnLog.arrivals[group] = Logged(@, st.now)] :
                                w \in randomWait(s.rateSum) }
                              : sp \in SpawnArrival(s.item, group) }
                 : s \in sampleRateMap(rates[group]) }

RECURSIVE SpawnArrivals(_, _, _)
\* the arrival loop of SpawnAircraft over the groups not yet visited
SpawnArrivals(sts, groups, rates) ==
    IF groups = {} THEN sts
    ELSE UNION { SpawnArrivals(UNION { SpawnArrivalGroup(st, g, rates) : st \in sts },
                               groups \ {g}, rates)
                 : g \in groups }

\* scenarioGroup.Airports, as SpawnDeparture reads it: the departures of an
\* airport and the category of each exit
DepartureAirports == [a \in {"KSEA", "KBFI", "KRNT"} |->
    IF a = "KRNT"
    THEN
    [ DepartureController |-> "LGA_DEP", Elevation |-> 30,
      Departures |-> << [Exit |-> "E4", Destination |-> "KPDX", Altitude |-> 12000,
                         Airlines |-> {Airline("AAL", "")}],
                        [Exit |-> "E5", Destination |-> "KBLI", Altitude |-> 10000,
                         Airlines |-> {Airline("AAL", "")}],
                        [Exit |-> "E6", Destination |-> "KGEG", Altitude |-> 14000,
                         Airlines |-> {Airline("AAL", "")}] >>,
      ExitCategories |-> [e \in {"E4", "E5", "E6"} |-> IF e = "E6" THEN "East" ELSE "North"] ]
    ELSE IF a = "KBFI"
    THEN
    [ DepartureController |-> "LGA_DEP", Elevation |-> 20,
      Departures |-> << [Exit |-> "E3", Destination |-> "KPDX", Altitude |-> 12000,
                         Airlines |-> {Airline("AAL", ""), Airline("XXX", "")}] >>,
      ExitCategories |-> [e \in {"E3"} |-> "South"] ]
    ELSE
    [ DepartureController |-> "LGA_DEP", Elevation |-> 400,
      Departures |-> << [Exit |-> "E1", Destination |-> "KPDX", Altitude |-> 12000,
                         Airlines |-> {Airline("AAL", "")}],
                        [Exit |-> "E2", Destination |-> "KGEG", Altitude |-> 14000,
                         Airlines |-> {Airline("AAL", "")}] >>,
      ExitCategories |-> [e \in {"E1", "E2"} |-> IF e = "E1" THEN "North" ELSE "East"] ]]

\* rwy.exitRoutes: exit -> the route of the exit
ExitRoutes == [e \in {"E1", "E2", "E3", "E4", "E5", "E6"} |->
    [ ClearedAltitude |-> 5000,
      Waypoints |-> << [Fix |-> "RW", Handoff |-> FALSE], [Fix |-> e, Handoff |-> FALSE] >> ]]

\* sim.Scenario.DepartureRunways
DepartureRunways ==
    << [Airport |-> "KSEA", Runway |-> "16L", Category |-> "North"],
       [Airport |-> "KSEA", Runway |-> "16L", Category |-> "East"],
       [Airport |-> "KSEA", Runway |-> "16R", Category |-> ""],
       [Airport |-> "KBFI", Runway |-> "13R", Category |-> ""],
       [Airport |-> "KRNT", Runway |-> "34", Category |-> "North"],
       [Airport |-> "KRNT", Runway |-> "34", Category |-> "East"] >>

\* FindIf over sim.Scenario.DepartureRunways: the first index that matches, 0 if none
FindDepartureRunway(airport, runway, category) ==
    LET matches == { i \in DOMAIN DepartureRunways :
                       /\ DepartureRunways[i].Airport = airport
                       /\ DepartureRunways[i].Runway = runway
                       /\ DepartureRunways[i].Category = category }
    IN  IF matches = {} THEN 0 ELSE CHOOSE i \in matches : \A j \in matches : i <= j

\* rand.Float32() < sim.DepartureChallenge, the challenge given in percent
ChallengeDraws(challenge) ==
    IF challenge <= 0 THEN {FALSE} ELSE IF challenge >= 100 THEN {TRUE} ELSE BOOLEAN

\* a SpawnDeparture whose uniform draw does not mind the category of the entry
DepartureChoices_AnyCategory(ap, rwy, last, challenge) ==
    LET category(i) == ap.ExitCategories[ap.Departures[i].Exit]
        fresh   == DOMAIN ap.Departures
        sameGate == IF last = 0 THEN fresh
                    ELSE { i \in DOMAIN ap.Departures : category(i) = category(last) }
        repeat  == IF last = 0 THEN fresh ELSE {last}
    IN  UNION { IF challenged THEN repeat \cup sameGate ELSE fresh
                : challenged \in ChallengeDraws(challenge) }

\* SpawnDeparture: the departures (indices of ap.Departures) it can choose for
\* the runway entry rwy whose last departure is `last`; 0 stands for the nil it
\* returns when no departure fits
DepartureChoices(ap, rwy, last, challenge) ==
    LET category(i) == ap.ExitCategories[ap.Departures[i].Exit]
        uniform == { i \in DOMAIN ap.Departures :
                       rwy.Category = "" \/ rwy.Category = category(i) }
        fresh   == IF uniform = {} THEN {0} ELSE uniform
        sameGate == IF last = 0 THEN fresh
                    ELSE { i \in DOMAIN ap.Departures : category(i) = category(last) }
        repeat  == IF last = 0 THEN fresh ELSE {last}
    IN  UNION { IF challenged THEN repeat \cup sameGate ELSE fresh
                : challenged \in ChallengeDraws(challenge) }

\* SpawnDeparture: the aircraft built for departure dep of airport ap
NewDeparture(ap, dep) ==
    [ TrackingController |-> ap.DepartureController,
      OutboundHandoffController |-> "",
      InboundHandoffController |-> "",
      Scratchpad |-> dep.Exit,
      FlightPlan |-> [Altitude |-> dep.Altitude, ArrivalAirport |-> dep.Destination],
      Altitude |-> ap.Elevation,
      IAS |-> 0,
      Heading |-> 0,
      AssignedAltitude |-> ExitRoutes[dep.Exit].ClearedAltitude,
      AssignedSpeed |-> 0,
      AssignedHeading |-> 0,
      TurnDirection |-> 0,
      AssignedAltitudeAfterSpeed |-> 0,
      AssignedSpeedAfterAltitude |-> 0,
      CrossingAltitude |-> 0,
      CrossingSpeed |-> 0,
      ClearedApproach |-> FALSE,
      Approach |-> "",
      Waypoints |-> ExitRoutes[dep.Exit].Waypoints,
      Performance |-> Performance ]

\* a departure spawn that leaves the timer of the runway as it was
SpawnChosenDeparture_NoRearm(st, airport, runway, idx, d, rateSum) ==
    LET ap == DepartureAirports[airport]
    IN  UNION {
          IF ok
          THEN { [addAircraft(st, callsign, NewDeparture(ap, ap.Departures[d])) EXCEPT
                    !.lastDeparture[idx] = d,
                    !.spawnLog.departures[airport][runway] = Logged(@, st.now)] :
                 callsign \in Callsigns }
          ELSE { [st EXCEPT !.lastDeparture[idx] = d, !.panicked = TRUE] }
          : ok \in UNION { sampleAircraft(al.ICAO, al.Fleet) : al \in ap.Departures[d].Airlines } }

\* SpawnDeparture for the departure d it chose for the runway entry idx, and
\* the rest of the loop body of SpawnAircraft.  SpawnDeparture writes to the
\* aircraft sampleAircraft returned without a look at it: on nil the write
\* panics, which ends the program.
SpawnChosenDeparture(st, airport, runway, idx, d, rateSum) ==
    LET ap == DepartureAirports[airport]
    IN  UNION {
          IF ok
          THEN { [addAircraft(st, callsign, NewDeparture(ap, ap.Departures[d])) EXCEPT
                    !.lastDeparture[idx] = d,
                    !.NextDepartureSpawn[airport][runway] = st.now + w,
                    !.spawnLog.departures[airport][runway] = Logged(@, st.now)] :
                 callsign \in Callsigns, w \in randomWait(rateSum) }
          ELSE { [st EXCEPT !.lastDeparture[idx] = d, !.panicked = TRUE] }
          : ok \in UNION { sampleAircraft(al.ICAO, al.Fleet) : al \in ap.Departures[d].Airlines } }

\* the departure loop body of SpawnAircraft for one runway of an airport
SpawnDepartureRunway(st, airport, runway) ==
    IF st.panicked \/ ~(st.now > st.NextDepartureSpawn[airport][runway]) THEN {st}
    ELSE UNION {
           LET idx == FindDepartureRunway(airport, runway, s.item)
               ap  == DepartureAirports[airport]
           IN  IF s.rateSum = 0 \/ idx = 0 THEN {st}
               ELSE UNION {
                      IF d = 0 THEN {st}
                      ELSE SpawnChosenDeparture(st, airport, runway, idx, d, s.rateSum)
                      : d \in DepartureChoices(ap, DepartureRunways[idx],
                                               st.lastDeparture[idx], DepartureChallenge) }
           : s \in sampleRateMap(DepartureRates[airport][runway]) }

\* the runways SpawnAircraft visits: the keys of sim.NextDepartureSpawn
DepartureKeys(next) == { <<a, r>> : a \in DOMAIN next, r \in UNION { DOMAIN next[x] : x \in DOMAIN next } }
                         \cap UNION { { <<a, r>> : r \in DOMAIN next[a] } : a \in DOMAIN next }

RECURSIVE SpawnDepartures(_, _)
\* the departure loop of SpawnAircraft over the runways not yet visited
SpawnDepartures(sts, keys) ==
    IF keys = {} THEN sts
    ELSE UNION { SpawnDepartures(UNION { SpawnDepartureRunway(st, k[1], k[2]) : st \in sts },
                                 keys \ {k})
                 : k \in keys }

\* Sim.SpawnAircraft
SpawnAircraft(st, rates) ==
    SpawnDepartures(SpawnArrivals({st}, DOMAIN rates, rates),
                    DepartureKeys(st.NextDepartureSpawn))

----------------------------------------------------------------------------
\* The update tick

\* every order in which a Go map range can visit the keys S
Orders(S) == { o \in [1 .. Cardinality(S) -> S] : \A i, j \in DOMAIN o : i # j => o[i] # o[j] }

\* the body of the handoff loop of updateState for one callsign
AcceptOne(st, callsign) ==
    IF ~(st.now > st.Handoffs[callsign]) THEN st
    ELSE LET dropped == [st EXCEPT !.Handoffs =
                            [c \in DOMAIN st.Handoffs \ {callsign} |-> st.Handoffs[c]]]
         IN IF callsign \notin DOMAIN st.Aircraft THEN dropped
            ELSE LET ac == st.Aircraft[callsign]
                 IN [dropped EXCEPT
                       !.Aircraft[callsign] =
                           [ac EXCEPT !.TrackingController = ac.OutboundHandoffController,
                                      !.OutboundHandoffController = "",
                                      !.AssignedAltitude = ac.FlightPlan.Altitude],
                       !.posted = Append(st.posted,
                                         EvC("AcceptedHandoff", callsign,
                                             ac.OutboundHandoffController))]

RECURSIVE AcceptHandoffs(_, _, _)
\* the handoff loop of updateState, visiting the callsigns order[i..]
AcceptHandoffs(st, order, i) ==
    IF i > Len(order) THEN st
    ELSE AcceptHandoffs(AcceptOne(st, order[i]), order, i + 1)

\* Sim.updateState at virtual time st.now: the states it can leave.  The
\* kinematic update of each aircraft and its radar track are outside the model.
\* Nothing runs once a spawn has panicked.
updateState(st, rates) ==
    IF st.panicked THEN {st}
    ELSE UNION { SpawnAircraft(AcceptHandoffs(st, order, 1), rates)
                 : order \in Orders(DOMAIN st.Handoffs) }

\* the simulation state the tick works on
TickState(now) ==
    [ Aircraft |-> Aircraft, Handoffs |-> Handoffs,
      NextArrivalSpawn |-> NextArrivalSpawn, NextDepartureSpawn |-> NextDepartureSpawn,
      lastDeparture |-> lastDeparture, spawnLog |-> spawnLog,
      posted |-> <<>>, now |-> now, panicked |-> FALSE ]

RECURSIVE Ulp(_)
\* the spacing of the float32 values around the natural number n: float32 has
\* a significand of 24 bits
Ulp(n) == IF n < 16777216 THEN 1 ELSE 2 * Ulp(n \div 2)

\* float32(n) for a natural number n: the nearest float32, ties to the even
\* significand
float32(n) ==
    LET q == Ulp(n)
        m == n \div q
        r == n % q
    IN  IF 2 * r > q \/ (2 * r = q /\ m % 2 = 1) THEN (m + 1) * q ELSE m * q

\* time.Duration(sim.SimRate * float32(elapsed)): the product of two float32 is
\* rounded to a float32, and its conversion to a Duration drops the fraction
\* (none here: SimRate is a whole number in the model)
ScaledElapsed(rate, elapsed) == float32(rate * float32(elapsed))

\* the virtual time an update called at wall time wallNow moves the clock to
VirtualNow(wallNow) == currentTime + ScaledElapsed(SimRate, wallNow - lastUpdateTime)

\* a GetUpdates that does not look at the pause flag
Sim_GetUpdates_IgnoresPause(wallNow) ==
    /\ call' = Call("GetUpdates", "", "")
    /\ ret' = NoError
    /\ LET now == VirtualNow(wallNow)
           st0 == [TickState(now) EXCEPT !.Aircraft =
                      [c \in DOMAIN Aircraft \ removedEvents |-> Aircraft[c]]]
       IN /\ \E st \in updateState(st0, ArrivalGroupRates) :
               /\ Aircraft' = st.Aircraft
               /\ Handoffs' = st.Handoffs
               /\ NextArrivalSpawn' = st.NextArrivalSpawn
               /\ NextDepartureSpawn' = st.NextDepartureSpawn
               /\ lastDeparture' = st.lastDeparture
               /\ spawnLog' = st.spawnLog
               /\ posted' = st.posted
               /\ pc' = IF st.panicked THEN "panicked" ELSE pc
          /\ currentTime' = now
          /\ lastUpdateTime' = wallNow
          /\ wallTime' = wallNow
          /\ removedEvents' = {}
          /\ UNCHANGED <<SimRate, Paused, rateVars>>

\* Sim.GetUpdates, called when the wall clock reads wallNow
Sim_GetUpdates(wallNow) ==
    /\ call' = Call("GetUpdates", "", "")
    /\ ret' = NoError
    /\ IF Paused
       THEN /\ posted' = <<>>
            /\ wallTime' = wallNow
            /\ UNCHANGED <<Aircraft, Handoffs, currentTime, lastUpdateTime, SimRate, Paused,
                           spawnVars, removedEvents, pc>>
       ELSE LET now == VirtualNow(wallNow)
                st0 == [TickState(now) EXCEPT !.Aircraft =
                           [c \in DOMAIN Aircraft \ removedEvents |-> Aircraft[c]]]
            IN /\ \E st \in updateState(st0, ArrivalGroupRates) :
                    /\ Aircraft' = st.Aircraft
                    /\ Handoffs' = st.Handoffs
                    /\ NextArrivalSpawn' = st.NextArrivalSpawn
                    /\ NextDepartureSpawn' = st.NextDepartureSpawn
                    /\ lastDeparture' = st.lastDeparture
                    /\ spawnLog' = st.spawnLog
                    /\ posted' = st.posted
                    /\ pc' = IF st.panicked THEN "panicked" ELSE pc
               /\ currentTime' = now
               /\ lastUpdateTime' = wallNow
               /\ wallTime' = wallNow
               /\ removedEvents' = {}
               /\ UNCHANGED <<SimRate, Paused, rateVars>>

RECURSIVE PrespawnFrom(_, _, _, _)
\* the loop of Prespawn from iteration i, at virtual time t, over the states sts
PrespawnFrom(sts, i, t, rates) ==
    IF i >= initialSimSeconds THEN sts
    ELSE PrespawnFrom(UNION { updateState([st EXCEPT !.now = t], rates) : st \in sts },
                      i + 1, t + 1, rates)

\* Sim.Prespawn, called by Connect right after NewSim, the wall clock reading wallNow
Sim_Prespawn(wallNow) ==
    /\ pc = "new"
    /\ call' = Call("Prespawn", "", "")
    /\ ret' = NoError
    /\ \E st \in PrespawnFrom({TickState(wallNow)}, 0, wallNow - (initialSimSeconds + 1),
                              ArrivalGroupRates) :
         /\ Aircraft' = st.Aircraft
         /\ Handoffs' = st.Handoffs
         /\ NextArrivalSpawn' = st.NextArrivalSpawn
         /\ NextDepartureSpawn' = st.NextDepartureSpawn
         /\ lastDeparture' = st.lastDeparture
         /\ spawnLog' = st.spawnLog
         /\ posted' = st.posted
         /\ pc' = IF st.panicked THEN "panicked" ELSE "running"
    /\ currentTime' = wallNow
    /\ lastUpdateTime' = wallNow
    /\ wallTime' = wallNow
    /\ UNCHANGED <<SimRate, Paused, rateVars, removedEvents>>

\* Sim.SetInitialSpawnTimes: the arrival timers NewSim can set at wall time now
InitialArrivalSpawns(rates, now) ==
    { f \in [DOMAIN rates -> UNION { randomSpawn(SumRates(rates[g]), now) : g \in DOMAIN rates }] :
        \A g \in DOMAIN rates : f[g] \in randomSpawn(SumRates(rates[g]), now) }

\* Sim.SetInitialSpawnTimes: the timers it can set for the runways of an
\* airport; a runway whose rates sum to 0 or less gets none
InitialRunwaySpawns(runwayRates, now) ==
    LET rwys == { r \in DOMAIN runwayRates : SumRates(runwayRates[r]) > 0 }
    IN  { f \in [rwys -> UNION { randomSpawn(SumRates(runwayRates[r]), now) : r \in rwys }] :
            \A r \in rwys : f[r] \in randomSpawn(SumRates(runwayRates[r]), now) }

\* Sim.SetInitialSpawnTimes: the departure timers NewSim can set; an airport
\* none of whose runways has a timer is left out
InitialDepartureSpawns(depRates, now) ==
    LET aps == { a \in DOMAIN depRates :
                   \E r \in DOMAIN depRates[a] : SumRates(depRates[a][r]) > 0 }
    IN  { f \in [aps -> UNION { InitialRunwaySpawns(depRates[a], now) : a \in aps }] :
            \A a \in aps : f[a] \in InitialRunwaySpawns(depRates[a], now) }

\* the history of the spawn keys of a simulation just created
NoSpawns == [count |-> 0, last |-> 0]
EmptySpawnLog(arrRates, depRates) ==
    [ arrivals   |-> [g \in DOMAIN arrRates |-> NoSpawns],
      departures |-> [a \in DOMAIN depRates |-> [r \in DOMAIN depRates[a] |-> NoSpawns]] ]

\* NewSim for the connection configuration ssc, the wall clock reading 0
NewSim(ssc) ==
    /\ Aircraft = << >>
    /\ Handoffs = << >>
    /\ currentTime = 0
    /\ lastUpdateTime = 0
    /\ wallTime = 0
    /\ SimRate = 1
    /\ Paused = FALSE
    /\ ArrivalGroupRates = ssc.arrivalGroupRates
    /\ DepartureRates = ssc.departureRates
    /\ DepartureChallenge = ssc.departureChallenge
    /\ NextArrivalSpawn \in InitialArrivalSpawns(ssc.arrivalGroupRates, 0)
    /\ NextDepartureSpawn \in InitialDepartureSpawns(ssc.departureRates, 0)
    /\ lastDeparture = [i \in DOMAIN DepartureRunways |-> 0]
    /\ spawnLog = EmptySpawnLog(ssc.arrivalGroupRates, ssc.departureRates)
    /\ removedEvents = {}
    /\ pc = "new"

----------------------------------------------------------------------------
\* The session of the local simulation: the user's track and handoff commands,
\* interleaved with update ticks

\* the arrival rates of the scenario played
SessionRates == [g \in {"G"} |-> [a \in {"KSEA"} |-> 1200]]

\* its connection configuration: arrivals only
SessionConfig == [arrivalGroupRates |-> SessionRates, departureRates |-> << >>,
                  departureChallenge |-> 0]

NoCall == Call("", "", "")

\* the adapter's state while the local simulation runs: a server never connected
NoVATSIM ==
    /\ aircraft = << >>
    /\ trackingControllers = << >>
    /\ outboundHandoffs = << >>
    /\ inboundHandoffs = << >>
    /\ controllers = {}
    /\ connection = FALSE
    /\ atcValid = FALSE
    /\ vatsimTime = 0

InitSim ==
    /\ NewSim(SessionConfig)
    /\ NoVATSIM
    /\ call = NoCall
    /\ ret = NoError
    /\ posted = <<>>

SimCommand ==
    \/ \E c \in CommandCallsigns, s \in ScratchpadInputs : Sim_SetScratchpad(c, s)
    \/ \E c \in CommandCallsigns : Sim_InitiateTrack(c)
    \/ \E c \in CommandCallsigns : Sim_DropTrack(c)
    \/ \E c \in CommandCallsigns, t \in HandoffTargets : Sim_Handoff(c, t)
    \/ \E c \in CommandCallsigns : Sim_AcceptHandoff(c)
    \/ \E c \in CommandCallsigns : Sim_CancelHandoff(c)
    \/ \E c \in CommandCallsigns : Sim_DeleteAircraft(c)
    \/ \E c \in CommandCallsigns, op \in SimUnimplemented : Sim_Unimplemented(op, c)

SimTick ==
    \/ Sim_Prespawn(0)
    \/ /\ pc = "running"
       /\ VirtualNow(wallTime + TickSeconds) <= MaxTime
       /\ Sim_GetUpdates(wallTime + TickSeconds)

SimNext ==
    /\ UNCHANGED vatsimVars
    /\ \/ SimTick
       \/ pc = "running" /\ SimCommand
       \/ pc = "running" /\ Sim_Disconnect

SpecSim == InitSim /\ [][SimNext]_vars

----------------------------------------------------------------------------
\* Sessions that only let the simulation run, to watch the spawn timers: the
\* user connects and the frames call GetUpdates, at rate 1 and never paused.
\* Time is in whole seconds.

\* the frames of a spawn session: the wall clock advances by one of `ticks`
\* between two updates, up to the virtual time `horizon`
SpawnNext(ticks, horizon) ==
    /\ UNCHANGED vatsimVars
    /\ \/ Sim_Prespawn(0)
       \/ /\ pc = "running"
          /\ \E d \in ticks :
               /\ VirtualNow(wallTime + d) <= horizon
               /\ Sim_GetUpdates(wallTime + d)

InitSpawn(ssc) ==
    /\ NewSim(ssc)
    /\ NoVATSIM
    /\ call = NoCall
    /\ ret = NoError
    /\ posted = <<>>

\* one arrival group with 30 arrivals an hour
Spawn30Config == [arrivalGroupRates |-> [g \in {"G"} |-> [a \in {"KSEA"} |-> 30]],
                  departureRates |-> << >>, departureChallenge |-> 0]
Spawn30Ticks == {5, 10}
MaxSpawn30Time == 150

SpawnNext30 == SpawnNext(Spawn30Ticks, MaxSpawn30Time)

SpecSpawn30 == InitSpawn(Spawn30Config) /\ [][SpawnNext30]_vars

\* an arrival group and a departure runway whose rates are all 0, next to a
\* departure runway in use
Spawn0Config ==
    [arrivalGroupRates |-> [g \in {"G"} |-> [a \in {"KSEA"} |-> 0]],
     departureRates |-> [a \in {"KSEA"} |->
         [r \in {"16L", "16R"} |->
             IF r = "16L" THEN [c \in {"North", "East"} |-> 0]
                          ELSE [c \in {""} |-> 1200]]],
     departureChallenge |-> 50]
Spawn0Ticks == {600, 3600}
MaxSpawn0Time == 90000

\* 24 hours, in seconds
DaySeconds == 24 * 3600

SpawnNext0 == SpawnNext(Spawn0Ticks, MaxSpawn0Time)

SpecSpawn0 == InitSpawn(Spawn0Config) /\ [][SpawnNext0]_vars

\* one arrival group with 20 arrivals an hour, watched for three hours; the
\* updates come one second later than the shortest wait (153 s)
Spawn20Config == [arrivalGroupRates |-> [g \in {"H"} |-> [a \in {"KSEA"} |-> 20]],
                  departureRates |-> << >>, departureChallenge |-> 0]
Spawn20Ticks == {154}
MaxSpawn20Time == 10800

SpawnNext20 == SpawnNext(Spawn20Ticks, MaxSpawn20Time)

SpecSpawn20 == InitSpawn(Spawn20Config) /\ [][SpawnNext20]_vars

\* scenarios whose configuration has holes.  In the first, arrival group "B"
\* has a rate for KPAE, which none of its arrivals has a route to, and for
\* KBFI, where some airlines, fleets and aircraft types are missing from the
\* database.  In the second, runway 13R of KBFI has a rate for a category no
\* runway entry carries, and its departure names an airline the database does
\* not know.
SpawnDbConfigs ==
    { [arrivalGroupRates |-> [g \in {"B"} |-> [a \in {"KBFI", "KPAE"} |-> 600]],
       departureRates |-> << >>, departureChallenge |-> 0],
      [arrivalGroupRates |-> << >>,
       departureRates |-> [a \in {"KBFI"} |->
           [r \in {"13R"} |-> [c \in {"", "West"} |-> 600]]],
       departureChallenge |-> 0] }
SpawnDbTicks == {2, 3}
MaxSpawnDbTime == 8

SpawnNextDb == SpawnNext(SpawnDbTicks, MaxSpawnDbTime)

InitSpawnDb == \E ssc \in SpawnDbConfigs : InitSpawn(ssc)

SpecSpawnDb == InitSpawnDb /\ [][SpawnNextDb]_vars

\* a runway with two categories, two exits in one of them, and a departure
\* challenge of 50 percent
SpawnGateConfig ==
    [arrivalGroupRates |-> << >>,
     departureRates |-> [a \in {"KRNT"} |->
         [r \in {"34"} |-> [c \in {"North", "East"} |-> 600]]],
     departureChallenge |-> 50]
SpawnGateTicks == {2, 3}
MaxSpawnGateTime == 12

SpawnNextGate == SpawnNext(SpawnGateTicks, MaxSpawnGateTime)

SpecSpawnGate == InitSpawn(SpawnGateConfig) /\ [][SpawnNextGate]_vars

----------------------------------------------------------------------------
\* The Sim's navigation commands (src/sim.go).  The kinematic state they steer
\* (position, the turn and climb in progress, Aircraft.WaypointUpdate) is
\* outside this model; the assignments they record are inside.

ErrUnableCommand == "ErrUnableCommand"
ErrNoFlightPlan == "ErrNoFlightPlan"
ErrArrivalAirportUnknown == "ErrArrivalAirportUnknown"
ErrUnknownApproach == "ErrUnknownApproach"
ErrClearedForUnexpectedApproach == "ErrClearedForUnexpectedApproach"
\* fmt.Errorf("%s: fix not found in route", fix)
ErrFixNotInRoute == "fix not found in route"

ILSApproach == "ILS"
RNAVApproach == "RNAV"

\* scenarioGroup.Airports: airport -> approach name -> approach; Waypoints is
\* the sequence of the routes of the approach
Airports == [a \in {"KSEA"} |->
    [n \in {"I6L", "R6R"} |->
        IF n = "I6L"
        THEN [FullName |-> "ILS 16L", Type |-> ILSApproach,
              Waypoints |-> << << [Fix |-> "CCC", Handoff |-> FALSE],
                                  [Fix |-> "FAF", Handoff |-> FALSE],
                                  [Fix |-> "RWY", Handoff |-> FALSE] >> >>]
        ELSE [FullName |-> "RNAV 16R", Type |-> RNAVApproach,
              Waypoints |-> << << [Fix |-> "RRR", Handoff |-> FALSE],
                                  [Fix |-> "RWY", Handoff |-> FALSE] >> >>]]]

\* a command that changes the aircraft `callsign` to ac and returns e
SimUpdate(callsign, ac, e) ==
    /\ Aircraft' = [Aircraft EXCEPT ![callsign] = ac]
    /\ ret' = e
    /\ posted' = << Ev("RadioTransmission", callsign) >>
    /\ UNCHANGED <<Handoffs, simRest>>

\* a command the pilot refuses on the radio with error e
SimRefuse(callsign, e) ==
    /\ ret' = e
    /\ posted' = << Ev("RadioTransmission", callsign) >>
    /\ UNCHANGED simVars

Sim_AssignAltitude(callsign, altitude) ==
    /\ call' = Call("AssignAltitude", callsign, altitude)
    /\ IF callsign \notin DOMAIN Aircraft THEN SimFail(ErrNoAircraftForCallsign)
       ELSE LET ac  == Aircraft[callsign]
                ac1 == IF ac.AssignedSpeed # 0
                       THEN [ac EXCEPT !.AssignedAltitudeAfterSpeed = altitude]
                       ELSE [ac EXCEPT !.AssignedAltitude = altitude]
            IN  SimUpdate(callsign, [ac1 EXCEPT !.CrossingAltitude = 0], NoError)

Sim_AssignHeading(callsign, heading, turn) ==
    /\ call' = Call("AssignHeading", callsign, "")
    /\ IF callsign \notin DOMAIN Aircraft THEN SimFail(ErrNoAircraftForCallsign)
       ELSE SimUpdate(callsign,
                      [Aircraft[callsign] EXCEPT
                          !.AssignedHeading = IF heading = 0 THEN 360 ELSE heading,
                          !.TurnDirection = turn,
                          !.ClearedApproach = FALSE],
                      NoError)

\* a TurnLeft that leaves the approach clearance alone
Sim_TurnLeft_KeepsClearance(callsign, deg) ==
    /\ call' = Call("TurnLeft", callsign, "")
    /\ IF callsign \notin DOMAIN Aircraft THEN SimFail(ErrNoAircraftForCallsign)
       ELSE LET ac == Aircraft[callsign]
                h  == IF ac.AssignedHeading = 0 THEN ac.Heading - deg
                      ELSE ac.AssignedHeading - deg
            IN  SimUpdate(callsign,
                          [ac EXCEPT !.AssignedHeading = IF h <= 0 THEN h + 360 ELSE h,
                                     !.TurnDirection = 0],
                          NoError)

\* Sim.TurnLeft
Sim_TurnLeft(callsign, deg) ==
    /\ call' = Call("TurnLeft", callsign, "")
    /\ IF callsign \notin DOMAIN Aircraft THEN SimFail(ErrNoAircraftForCallsign)
       ELSE LET ac == Aircraft[callsign]
                h  == IF ac.AssignedHeading = 0 THEN ac.Heading - deg
                      ELSE ac.AssignedHeading - deg
            IN  SimUpdate(callsign,
                          [ac EXCEPT !.AssignedHeading = IF h <= 0 THEN h + 360 ELSE h,
                                     !.TurnDirection = 0,
                                     !.ClearedApproach = FALSE],
                          NoError)

Sim_TurnRight(callsign, deg) ==
    /\ call' = Call("TurnRight", callsign, "")
    /\ IF callsign \notin DOMAIN Aircraft THEN SimFail(ErrNoAircraftForCallsign)
       ELSE LET ac == Aircraft[callsign]
                h  == IF ac.AssignedHeading = 0 THEN ac.Heading + deg
                      ELSE ac.AssignedHeading + deg
            IN  SimUpdate(callsign,
                          [ac EXCEPT !.AssignedHeading = IF h > 360 THEN h - 360 ELSE h,
                                     !.TurnDirection = 0,
                                     !.ClearedApproach = FALSE],
                          NoError)

\* an AssignSpeed that never waits for the altitude
Sim_AssignSpeed_Immediate(callsign, speed) ==
    /\ call' = Call("AssignSpeed", callsign, speed)
    /\ IF callsign \notin DOMAIN Aircraft THEN SimFail(ErrNoAircraftForCallsign)
       ELSE LET ac == Aircraft[callsign]
            IN  IF speed # 0 /\ speed < ac.Performance.Landing
                    THEN SimRefuse(callsign, ErrUnableCommand)
                ELSE IF speed # 0 /\ speed > ac.Performance.Max
                    THEN SimRefuse(callsign, ErrUnableCommand)
                ELSE LET ac1 == [ac EXCEPT !.AssignedSpeed = speed]
                     IN  SimUpdate(callsign, [ac1 EXCEPT !.CrossingSpeed = 0], NoError)

\* Sim.AssignSpeed
Sim_AssignSpeed(callsign, speed) ==
    /\ call' = Call("AssignSpeed", callsign, speed)
    /\ IF callsign \notin DOMAIN Aircraft THEN SimFail(ErrNoAircraftForCallsign)
       ELSE LET ac == Aircraft[callsign]
            IN  IF speed # 0 /\ speed < ac.Performance.Landing
                    THEN SimRefuse(callsign, ErrUnableCommand)
                ELSE IF speed # 0 /\ speed > ac.Performance.Max
                    THEN SimRefuse(callsign, ErrUnableCommand)
                ELSE LET ac1 == IF ac.AssignedAltitude # 0
                                THEN [ac EXCEPT !.AssignedSpeedAfterAltitude = speed]
                                ELSE [ac EXCEPT !.AssignedSpeed = speed]
                     IN  SimUpdate(callsign, [ac1 EXCEPT !.CrossingSpeed = 0], NoError)

\* the first index of wps whose fix is `fix`, 0 when there is none
FixIndex(wps, fix) ==
    IF \E i \in DOMAIN wps : wps[i].Fix = fix
    THEN CHOOSE i \in DOMAIN wps : wps[i].Fix = fix /\ \A j \in 1 .. (i - 1) : wps[j].Fix # fix
    ELSE 0

\* the first waypoint named `fix` in the routes of an approach, routes in
\* order; <<>> when no route has it
RECURSIVE ApproachFix(_, _)
ApproachFix(routes, fix) ==
    IF routes = <<>> THEN <<>>
    ELSE LET i == FixIndex(Head(routes), fix)
         IN  IF i # 0 THEN << Head(routes)[i] >> ELSE ApproachFix(Tail(routes), fix)

Sim_DirectFix(callsign, fix) ==
    /\ call' = Call("DirectFix", callsign, fix)
    /\ IF callsign \notin DOMAIN Aircraft THEN SimFail(ErrNoAircraftForCallsign)
       ELSE LET ac == Aircraft[callsign]
                i  == FixIndex(ac.Waypoints, fix)
                wp == IF ac.Approach = "" THEN <<>>
                      ELSE ApproachFix(Airports[ac.FlightPlan.ArrivalAirport][ac.Approach].Waypoints, fix)
            IN  IF i # 0
                    THEN SimUpdate(callsign,
                                   [ac EXCEPT !.Waypoints = SubSeq(@, i, Len(@))], NoError)
                ELSE IF wp # <<>>
                    THEN SimUpdate(callsign, [ac EXCEPT !.Waypoints = wp], NoError)
                ELSE SimFail(ErrFixNotInRoute)

\* getApproach: the error it returns, NoError when it finds the approach
getApproach(callsign, approach) ==
    IF callsign \notin DOMAIN Aircraft THEN ErrNoAircraftForCallsign
    ELSE IF Aircraft[callsign].FlightPlan = << >> THEN ErrNoFlightPlan
    ELSE IF Aircraft[callsign].FlightPlan.ArrivalAirport \notin DOMAIN Airports
        THEN ErrArrivalAirportUnknown
    ELSE IF approach \notin DOMAIN Airports[Aircraft[callsign].FlightPlan.ArrivalAirport]
        THEN ErrUnknownApproach
    ELSE NoError

Sim_ExpectApproach(callsign, approach) ==
    /\ call' = Call("ExpectApproach", callsign, approach)
    /\ LET err == getApproach(callsign, approach)
       IN  IF err # NoError THEN SimFail(err)
           ELSE SimUpdate(callsign, [Aircraft[callsign] EXCEPT !.Approach = approach], NoError)

\* the loop of ClearedApproach over the routes of the approach, for an aircraft
\* bound to `fix`: whether a route has the fix, and the waypoints that remain
\* after it (<<>> is Go's nil).  The break leaves the inner loop only.
RECURSIVE DirectApproachFix(_, _, _)
DirectApproachFix(routes, fix, found) ==
    IF routes = <<>> THEN found
    ELSE LET route == Head(routes)
             i     == FixIndex(route, fix)
             next  == IF i = 0 THEN found
                      ELSE [direct |-> TRUE,
                            remaining |-> IF i < Len(route)
                                          THEN SubSeq(route, i + 1, Len(route))
                                          ELSE found.remaining]
         IN  DirectApproachFix(Tail(routes), fix, next)

\* a ClearedApproach that switches the aircraft to the approach named when it
\* expected another one
Sim_ClearedApproach_Switches(callsign, approach) ==
    /\ call' = Call("ClearedApproach", callsign, approach)
    /\ LET err == getApproach(callsign, approach)
       IN  IF err # NoError THEN SimFail(err)
           ELSE
           LET ac0    == Aircraft[callsign]
               aps    == Airports[ac0.FlightPlan.ArrivalAirport]
               ap     == aps[approach]
               ac     == IF ac0.Approach = "" THEN [ac0 EXCEPT !.Approach = approach] ELSE ac0
               found  == IF ac.AssignedHeading = 0 /\ Len(ac.Waypoints) > 0
                         THEN DirectApproachFix(ap.Waypoints, ac.Waypoints[1].Fix,
                                                [direct |-> FALSE, remaining |-> <<>>])
                         ELSE [direct |-> FALSE, remaining |-> <<>>]
               routed == [ac EXCEPT !.Waypoints = @ \o found.remaining]
               clear(a) == [a EXCEPT !.AssignedSpeed = 0,
                                     !.CrossingSpeed = a.IAS,
                                     !.ClearedApproach = TRUE]
           IN  IF aps[ac.Approach].FullName # ap.FullName
                   THEN SimUpdate(callsign, [ac EXCEPT !.Approach = approach],
                                  ErrClearedForUnexpectedApproach)
               ELSE IF ac.ClearedApproach
                   THEN SimUpdate(callsign, ac, NoError)
               ELSE IF aps[ac.Approach].Type = ILSApproach
                   THEN IF ac.AssignedHeading = 0
                        THEN IF ~found.direct
                             THEN SimUpdate(callsign, ac, NoError)
                             ELSE SimUpdate(callsign, clear(routed), NoError)
                        ELSE SimUpdate(callsign, clear(ac), NoError)
               ELSE IF ~found.direct
                   THEN SimUpdate(callsign, ac, NoError)
               ELSE SimUpdate(callsign, clear(routed), NoError)

\* a ClearedApproach that clears an aircraft it has cleared already once more
Sim_ClearedApproach_Again(callsign, approach) ==
    /\ call' = Call("ClearedApproach", callsign, approach)
    /\ LET err == getApproach(callsign, approach)
       IN  IF err # NoError THEN SimFail(err)
           ELSE
           LET ac0    == Aircraft[callsign]
               aps    == Airports[ac0.FlightPlan.ArrivalAirport]
               ap     == aps[approach]
               ac     == IF ac0.Approach = "" THEN [ac0 EXCEPT !.Approach = approach] ELSE ac0
               found  == IF ac.AssignedHeading = 0 /\ Len(ac.Waypoints) > 0
                         THEN DirectApproachFix(ap.Waypoints, ac.Waypoints[1].Fix,
                                                [direct |-> FALSE, remaining |-> <<>>])
                         ELSE [direct |-> FALSE, remaining |-> <<>>]
               routed == [ac EXCEPT !.Waypoints = @ \o found.remaining]
               clear(a) == [a EXCEPT !.AssignedSpeed = 0,
                                     !.CrossingSpeed = a.IAS,
                                     !.ClearedApproach = TRUE]
           IN  IF aps[ac.Approach].FullName # ap.FullName
                   THEN SimRefuse(callsign, ErrClearedForUnexpectedApproach)
               ELSE IF aps[ac.Approach].Type = ILSApproach
                   THEN IF ac.AssignedHeading = 0
                        THEN IF ~found.direct
                             THEN SimUpdate(callsign, ac, NoError)
                             ELSE SimUpdate(callsign, clear(routed), NoError)
                        ELSE SimUpdate(callsign, clear(ac), NoError)
               ELSE IF ~found.direct
                   THEN SimUpdate(callsign, ac, NoError)
               ELSE SimUpdate(callsign, clear(routed), NoError)

\* Sim.ClearedApproach
Sim_ClearedApproach(callsign, approach) ==
    /\ call' = Call("ClearedApproach", callsign, approach)
    /\ LET err == getApproach(callsign, approach)
       IN  IF err # NoError THEN SimFail(err)
           ELSE
           LET ac0    == Aircraft[callsign]
               aps    == Airports[ac0.FlightPlan.ArrivalAirport]
               ap     == aps[approach]
               ac     == IF ac0.Approach = "" THEN [ac0 EXCEPT !.Approach = approach] ELSE ac0
               found  == IF ac.AssignedHeading = 0 /\ Len(ac.Waypoints) > 0
                         THEN DirectApproachFix(ap.Waypoints, ac.Waypoints[1].Fix,
                                                [direct |-> FALSE, remaining |-> <<>>])
                         ELSE [direct |-> FALSE, remaining |-> <<>>]
               routed == [ac EXCEPT !.Waypoints = @ \o found.remaining]
               clear(a) == [a EXCEPT !.AssignedSpeed = 0,
                                     !.CrossingSpeed = a.IAS,
                                     !.ClearedApproach = TRUE]
           IN  IF aps[ac.Approach].FullName # ap.FullName
                   THEN SimRefuse(callsign, ErrClearedForUnexpectedApproach)
               ELSE IF ac.ClearedApproach
                   THEN SimUpdate(callsign, ac, NoError)
               ELSE IF aps[ac.Approach].Type = ILSApproach
                   THEN IF ac.AssignedHeading = 0
                        THEN IF ~found.direct
                             THEN SimUpdate(callsign, ac, NoError)
                             ELSE SimUpdate(callsign, clear(routed), NoError)
                        ELSE SimUpdate(callsign, clear(ac), NoError)
               ELSE IF ~found.direct
                   THEN SimUpdate(callsign, ac, NoError)
               ELSE SimUpdate(callsign, clear(routed), NoError)

\* TogglePause: the pause button, pressed when the wall clock reads wallNow
Sim_TogglePause(wallNow) ==
    /\ call' = Call("TogglePause", "", "")
    /\ ret' = NoError
    /\ posted' = <<>>
    /\ Paused' = ~Paused
    /\ lastUpdateTime' = wallNow
    /\ wallTime' = wallNow
    /\ UNCHANGED <<Aircraft, Handoffs, currentTime, SimRate, spawnVars, removedEvents, pc>>

\* DrawSettingsWindow: the "Simulation speed" slider writes sim.SimRate, when
\* the wall clock reads wallNow
Sim_SetSimRate(rate, wallNow) ==
    /\ call' = Call("SetSimRate", "", "")
    /\ ret' = NoError
    /\ posted' = <<>>
    /\ SimRate' = rate
    /\ wallTime' = wallNow
    /\ UNCHANGED <<Aircraft, Handoffs, currentTime, lastUpdateTime, Paused, spawnVars,
                   removedEvents, pc>>

----------------------------------------------------------------------------
\* The session of the navigation commands: the commands the user gives the
\* pilots of the aircraft the prespawn has put on the scope, between two ticks

AltitudeInputs == {4000}
HeadingInputs == {0, 180}
TurnInputs == {0, 1}
DegreeInputs == {90}
SpeedInputs == {0, 100, 180, 400}
FixInputs == {"CCC", "FAF", "ZZZ"}
ApproachInputs == {"I6L", "R6R", "V6C"}

NavCommand ==
    \/ \E c \in CommandCallsigns, a \in AltitudeInputs : Sim_AssignAltitude(c, a)
    \/ \E c \in CommandCallsigns, h \in HeadingInputs, t \in TurnInputs : Sim_AssignHeading(c, h, t)
    \/ \E c \in CommandCallsigns, d \in DegreeInputs : Sim_TurnLeft(c, d)
    \/ \E c \in CommandCallsigns, d \in DegreeInputs : Sim_TurnRight(c, d)
    \/ \E c \in CommandCallsigns, sp \in SpeedInputs : Sim_AssignSpeed(c, sp)
    \/ \E c \in CommandCallsigns, f \in FixInputs : Sim_DirectFix(c, f)
    \/ \E c \in CommandCallsigns, a \in ApproachInputs : Sim_ExpectApproach(c, a)
    \/ \E c \in CommandCallsigns, a \in ApproachInputs : Sim_ClearedApproach(c, a)

NavNext ==
    /\ UNCHANGED vatsimVars
    /\ \/ Sim_Prespawn(0)
       \/ pc = "running" /\ NavCommand

SpecNav == InitSim /\ [][NavNext]_vars

\* The heading commands on their own.  ac.Heading is a float32 the flight
\* model keeps turning; the commands read int(ac.Heading), which is what the
\* Heading field holds here.  The session starts with the arrival of group H
\* in the registry, flying one of a few headings, due north (less than one
\* degree, so 0) among them.
HeadingStates == {0, 1, 90, 359}
HeadingArguments == {0, 1, 180, 360}
DegreeArguments == {0, 1, 90, 359, 360}

InitHeading ==
    /\ \E h \in HeadingStates :
         Aircraft = [c \in Callsigns |->
                       [NewArrival(ArrivalGroups["H"][1], "KSEA") EXCEPT !.Heading = h]]
    /\ Handoffs = << >>
    /\ currentTime = 0
    /\ lastUpdateTime = 0
    /\ wallTime = 0
    /\ SimRate = 1
    /\ Paused = FALSE
    /\ ArrivalGroupRates = [g \in {"H"} |-> [a \in {"KSEA"} |-> 0]]
    /\ NextArrivalSpawn = [g \in {"H"} |-> YearSeconds]
    /\ DepartureRates = << >>
    /\ NextDepartureSpawn = << >>
    /\ DepartureChallenge = 0
    /\ lastDeparture = [i \in DOMAIN DepartureRunways |-> 0]
    /\ spawnLog = [arrivals |-> [g \in {"H"} |-> [count |-> 1, last |-> 0]],
                   departures |-> << >>]
    /\ removedEvents = {}
    /\ NoVATSIM
    /\ call = NoCall
    /\ ret = NoError
    /\ posted = <<>>
    /\ pc = "running"

HeadingNext ==
    /\ UNCHANGED vatsimVars
    /\ \/ \E c \in CommandCallsigns, h \in HeadingArguments, t \in TurnInputs :
            Sim_AssignHeading(c, h, t)
       \/ \E c \in CommandCallsigns, d \in DegreeArguments : Sim_TurnLeft(c, d)
       \/ \E c \in CommandCallsigns, d \in DegreeArguments : Sim_TurnRight(c, d)

SpecHeading == InitHeading /\ [][HeadingNext]_vars

----------------------------------------------------------------------------
\* The session of the clock: the main loop calls GetUpdates once per frame
\* while the user presses the pause button and moves the speed slider.  The
\* scenario has no arrivals, so that nothing but the clock changes (Prespawn
\* has nothing to spawn), and times are counted in nanoseconds, the unit of
\* Go's time.Duration, which makes the float32 arithmetic of the update
\* visible.  The sessions with traffic count in seconds.

\* wall-clock time at which the clock session stops
MaxWallTime == 70000000

\* a scenario without traffic
ClockConfig == [arrivalGroupRates |-> << >>, departureRates |-> << >>,
                departureChallenge |-> 0]

\* the wall time between two calls of a frame: 1/60 s, and a slightly longer frame
FrameTimes == {16666667, 16777217}

\* the values the slider is moved to
SimRateInputs == {1, 2, 3}

InitClock ==
    /\ NewSim(ClockConfig)
    /\ NoVATSIM
    /\ call = NoCall
    /\ ret = NoError
    /\ posted = <<>>

ClockNext ==
    /\ UNCHANGED vatsimVars
    /\ \/ Sim_Prespawn(0)
       \/ /\ pc = "running"
          /\ \E d \in FrameTimes :
               /\ wallTime + d <= MaxWallTime
               /\ \/ Sim_GetUpdates(wallTime + d)
                  \/ Sim_TogglePause(wallTime + d)
                  \/ \E r \in SimRateInputs : Sim_SetSimRate(r, wallTime + d)

SpecClock == InitClock /\ [][ClockNext]_vars

----------------------------------------------------------------------------
\* The session of the pause button: the user pauses and resumes the simulation
\* between two updates and keeps giving commands

\* wall-clock time (seconds) at which the pause session stops
MaxPauseTime == 9

PauseCommand ==
    \E c \in Callsigns :
        \/ Sim_InitiateTrack(c)
        \/ Sim_DropTrack(c)
        \/ Sim_Handoff(c, "NY_CTR")
        \/ Sim_AcceptHandoff(c)
        \/ Sim_CancelHandoff(c)
        \/ Sim_SetScratchpad(c, "ABC")
        \/ Sim_AssignAltitude(c, 4000)

PauseNext ==
    /\ UNCHANGED vatsimVars
    /\ \/ Sim_Prespawn(0)
       \/ /\ pc = "running"
          /\ \/ /\ wallTime + TickSeconds <= MaxPauseTime
                /\ Sim_GetUpdates(wallTime + TickSeconds)
             \/ Sim_TogglePause(wallTime)
             \/ PauseCommand

SpecPause == InitSim /\ [][PauseNext]_vars

----------------------------------------------------------------------------
\* VATSIMServer (src/ui.go, vatsim-server.go): the network protocol adapter.
\* Time is counted in whole minutes.  A map of the server is a function whose
\* DOMAIN is the set of its keys.

ErrNotController == "ErrNotController"

\* v.callsign: the position signed in
VatsimCallsign == "JFK_APP"

\* the controllers the network can announce
NetworkControllers == {"NY_CTR"}

\* the controller names Handoff and PointOut are tried with
VatsimTargets == {"NY_CTR", "BOS_CTR"}

\* time.Time{}: the time of an aircraft no position report has been heard of
ZeroTime == 0 - 100000

\* "haven't heard from in 30 minutes"
StaleMinutes == 30

\* a map without the key k
MapDelete(m, k) == [x \in DOMAIN m \ {k} |-> m[x]]

\* a map with m[k] = val
MapPut(m, k, val) == [x \in DOMAIN m \cup {k} |-> IF x = k THEN val ELSE m[x]]

\* &Aircraft{callsign: callsign}: every other field has Go's zero value
ZeroAircraft == [scratchpad |-> "", assignedSquawk |-> 0, tempAltitude |-> 0,
                 lastHeard |-> ZeroTime, flightPlan |-> ""]

vatsimRest == <<controllers, connection, atcValid, vatsimTime>>

\* a command that returns the error e: the server is left as it was
VFail(e) ==
    /\ ret' = e
    /\ posted' = <<>>
    /\ UNCHANGED vatsimVars

trackedByAnotherController(callsign) ==
    callsign \in DOMAIN trackingControllers /\ trackingControllers[callsign] # VatsimCallsign

VATSIMServer_SetSquawk(callsign, code) ==
    /\ call' = Call("SetSquawk", callsign, "")
    /\ IF ~atcValid THEN VFail(ErrNotController)
       ELSE IF callsign \notin DOMAIN aircraft THEN VFail(ErrNoAircraftForCallsign)
       ELSE IF trackedByAnotherController(callsign) THEN VFail(ErrOtherControllerHasTrack)
       ELSE /\ aircraft' = [aircraft EXCEPT ![callsign].assignedSquawk = code]
            /\ posted' = << Ev("ModifiedAircraft", callsign) >>
            /\ ret' = NoError
            /\ UNCHANGED <<trackingControllers, outboundHandoffs, inboundHandoffs, vatsimRest>>

VATSIMServer_SetScratchpad(callsign, scratchpad) ==
    /\ call' = Call("SetScratchpad", callsign, scratchpad)
    /\ IF ~atcValid THEN VFail(ErrNotController)
       ELSE IF callsign \notin DOMAIN aircraft THEN VFail(ErrNoAircraftForCallsign)
       ELSE IF trackedByAnotherController(callsign) THEN VFail(ErrOtherControllerHasTrack)
       ELSE IF Len(scratchpad) > 3 THEN VFail(ErrScratchpadTooLong)
       ELSE /\ aircraft' = [aircraft EXCEPT ![callsign].scratchpad = scratchpad]
            /\ posted' = << Ev("ModifiedAircraft", callsign) >>
            /\ ret' = NoError
            /\ UNCHANGED <<trackingControllers, outboundHandoffs, inboundHandoffs, vatsimRest>>

VATSIMServer_SetTemporaryAltitude(callsign, altitude) ==
    /\ call' = Call("SetTemporaryAltitude", callsign, "")
    /\ IF ~atcValid THEN VFail(ErrNotController)
       ELSE IF callsign \notin DOMAIN aircraft THEN VFail(ErrNoAircraftForCallsign)
       ELSE IF trackedByAnotherController(callsign) THEN VFail(ErrOtherControllerHasTrack)
       ELSE /\ aircraft' = [aircraft EXCEPT ![callsign].tempAltitude = altitude]
            /\ posted' = << Ev("ModifiedAircraft", callsign) >>
            /\ ret' = NoError
            /\ UNCHANGED <<trackingControllers, outboundHandoffs, inboundHandoffs, vatsimRest>>

VATSIMServer_PushFlightStrip(callsign, controller) ==
    /\ call' = Call("PushFlightStrip", callsign, controller)
    /\ ret' = NoError
    /\ posted' = <<>>
    /\ UNCHANGED vatsimVars

VATSIMServer_InitiateTrack(callsign) ==
    /\ call' = Call("InitiateTrack", callsign, "")
    /\ IF ~atcValid THEN VFail(ErrNotController)
       ELSE IF callsign \notin DOMAIN aircraft THEN VFail(ErrNoAircraftForCallsign)
       ELSE IF trackedByAnotherController(callsign) THEN VFail(ErrOtherControllerHasTrack)
       ELSE /\ trackingControllers' = MapPut(trackingControllers, callsign, VatsimCallsign)
            /\ posted' = << Ev("ModifiedAircraft", callsign) >>
            /\ ret' = NoError
            /\ UNCHANGED <<aircraft, outboundHandoffs, inboundHandoffs, vatsimRest>>

VATSIMServer_DropTrack(callsign) ==
    /\ call' = Call("DropTrack", callsign, "")
    /\ IF ~atcValid THEN VFail(ErrNotController)
       ELSE IF callsign \notin DOMAIN aircraft THEN VFail(ErrNoAircraftForCallsign)
       ELSE IF trackedByAnotherController(callsign) THEN VFail(ErrOtherControllerHasTrack)
       ELSE /\ trackingControllers' = MapDelete(trackingControllers, callsign)
            /\ posted' = << Ev("ModifiedAircraft", callsign) >>
            /\ ret' = NoError
            /\ UNCHANGED <<aircraft, outboundHandoffs, inboundHandoffs, vatsimRest>>

VATSIMServer_Handoff(callsign, controller) ==
    /\ call' = Call("Handoff", callsign, controller)
    /\ IF ~atcValid THEN VFail(ErrNotController)
       ELSE IF callsign \notin DOMAIN aircraft THEN VFail(ErrNoAircraftForCallsign)
       ELSE IF trackedByAnotherController(callsign) THEN VFail(ErrOtherControllerHasTrack)
       ELSE IF controller \notin controllers THEN VFail(ErrNoController)
       ELSE /\ outboundHandoffs' = MapPut(outboundHandoffs, callsign, controller)
            /\ posted' = << Ev("ModifiedAircraft", callsign) >>
            /\ ret' = NoError
            /\ UNCHANGED <<aircraft, trackingControllers, inboundHandoffs, vatsimRest>>

\* an accept that leaves the inbound offer recorded
VATSIMServer_AcceptHandoff_KeepsOffer(callsign) ==
    /\ call' = Call("AcceptHandoff", callsign, "")
    /\ IF ~atcValid THEN VFail(ErrNotController)
       ELSE IF callsign \notin DOMAIN aircraft THEN VFail(ErrNoAircraftForCallsign)
       ELSE IF callsign \notin DOMAIN inboundHandoffs THEN VFail(ErrNotBeingHandedOffToMe)
       ELSE /\ trackingControllers' = MapPut(trackingControllers, callsign, VatsimCallsign)
            /\ posted' = << Ev("ModifiedAircraft", callsign) >>
            /\ ret' = NoError
            /\ UNCHANGED <<aircraft, outboundHandoffs, inboundHandoffs, vatsimRest>>

VATSIMServer_AcceptHandoff(callsign) ==
    /\ call' = Call("AcceptHandoff", callsign, "")
    /\ IF ~atcValid THEN VFail(ErrNotController)
       ELSE IF callsign \notin DOMAIN aircraft THEN VFail(ErrNoAircraftForCallsign)
       ELSE IF callsign \notin DOMAIN inboundHandoffs THEN VFail(ErrNotBeingHandedOffToMe)
       ELSE /\ trackingControllers' = MapPut(trackingControllers, callsign, VatsimCallsign)
            /\ inboundHandoffs' = MapDelete(inboundHandoffs, callsign)
            /\ posted' = << Ev("ModifiedAircraft", callsign) >>
            /\ ret' = NoError
            /\ UNCHANGED <<aircraft, outboundHandoffs, vatsimRest>>

VATSIMServer_RejectHandoff(callsign) ==
    /\ call' = Call("RejectHandoff", callsign, "")
    /\ IF ~atcValid THEN VFail(ErrNotController)
       ELSE IF callsign \notin DOMAIN aircraft THEN VFail(ErrNoAircraftForCallsign)
       ELSE IF callsign \notin DOMAIN inboundHandoffs THEN VFail(ErrNotBeingHandedOffToMe)
       ELSE /\ inboundHandoffs' = MapDelete(inboundHandoffs, callsign)
            /\ posted' = << Ev("ModifiedAircraft", callsign) >>
            /\ ret' = NoError
            /\ UNCHANGED <<aircraft, trackingControllers, outboundHandoffs, vatsimRest>>

VATSIMServer_PointOut(callsign, controller) ==
    /\ call' = Call("PointOut", callsign, controller)
    /\ IF ~atcValid THEN VFail(ErrNotController)
       ELSE IF callsign \notin DOMAIN aircraft THEN VFail(ErrNoAircraftForCallsign)
       ELSE IF trackedByAnotherController(callsign) THEN VFail(ErrOtherControllerHasTrack)
       ELSE IF controller \notin controllers THEN VFail(ErrNoController)
       ELSE /\ ret' = NoError
            /\ posted' = <<>>
            /\ UNCHANGED vatsimVars

\* getOrCreateAircraft: the map after the call, and the update it records
getOrCreateAircraft(acs, callsign) ==
    IF callsign \in DOMAIN acs
        THEN [aircraft |-> acs, posted |-> << Ev("ModifiedAircraft", callsign) >>]
        ELSE [aircraft |-> MapPut(acs, callsign, ZeroAircraft),
              posted |-> << Ev("AddedAircraft", callsign) >>]

\* the part of the server the handlers of messages change
ServerState == [aircraft |-> aircraft, trackingControllers |-> trackingControllers,
                outboundHandoffs |-> outboundHandoffs, inboundHandoffs |-> inboundHandoffs,
                controllers |-> controllers, atcValid |-> atcValid, posted |-> <<>>]

\* a trackInitiated that records the track of an aircraft not seen yet
trackInitiated_Unseen(st, callsign, controller) ==
    [st EXCEPT !.trackingControllers = MapPut(@, callsign, controller),
               !.posted = @ \o << Ev("ModifiedAircraft", callsign) >>]

\* trackInitiated, on the server state st
trackInitiated(st, callsign, controller) ==
    IF callsign \in DOMAIN st.aircraft
        THEN [st EXCEPT !.trackingControllers = MapPut(@, callsign, controller),
                        !.posted = @ \o << Ev("ModifiedAircraft", callsign) >>]
        ELSE st

\* the handlers of the message table, by name; now is the connection's time
HandlePosition(st, msg, now) ==
    LET got == getOrCreateAircraft(st.aircraft, msg.callsign)
    IN  [st EXCEPT !.aircraft = [got.aircraft EXCEPT ![msg.callsign].lastHeard = now],
                   !.posted = @ \o got.posted]

HandleControllerAdded(st, msg) ==
    [st EXCEPT !.controllers = @ \cup {msg.sender}]

HandleHandoffOffer(st, msg) ==
    IF msg.callsign \in DOMAIN st.aircraft
        THEN [st EXCEPT !.inboundHandoffs = MapPut(@, msg.callsign, msg.sender),
                        !.posted = @ \o << Ev("ModifiedAircraft", msg.callsign) >>]
        ELSE st

HandleATCValidated(st) ==
    [st EXCEPT !.atcValid = TRUE]

Handle(handler, st, msg, now) ==
    CASE handler = "Position"        -> HandlePosition(st, msg, now)
      [] handler = "ControllerAdded" -> HandleControllerAdded(st, msg)
      [] handler = "TrackInitiated"  -> trackInitiated(st, msg.callsign, msg.sender)
      [] handler = "HandoffOffer"    -> HandleHandoffOffer(st, msg)
      [] handler = "ATCValidated"    -> HandleATCValidated(st)
      [] OTHER                       -> st

\* vatsimMessageSpecs: the ordered table of message specifications; a
\* specification matches the messages of its kind
vatsimMessageSpecs ==
    << [kind |-> "@",   handler |-> "Position"],
       [kind |-> "#AA", handler |-> "ControllerAdded"],
       [kind |-> "#IT", handler |-> "TrackInitiated"],
       [kind |-> "$HO", handler |-> "HandoffOffer"],
       [kind |-> "$CR", handler |-> "ATCValidated"] >>

Match(spec, msg) == spec.kind = msg.kind

\* the loop over the table for one message, from specification i on: every
\* specification that matches has its handler run
RECURSIVE ApplySpecs(_, _, _, _)
ApplySpecs(st, msg, now, i) ==
    IF i > Len(vatsimMessageSpecs) THEN st
    ELSE LET spec == vatsimMessageSpecs[i]
             next == IF Match(spec, msg) THEN Handle(spec.handler, st, msg, now) ELSE st
         IN  ApplySpecs(next, msg, now, i + 1)

\* the loop over the messages received; a message whose first field is empty
\* (kind "") is skipped
RECURSIVE ApplyMessages(_, _, _)
ApplyMessages(st, messages, now) ==
    IF messages = <<>> THEN st
    ELSE IF Head(messages).kind = "" THEN ApplyMessages(st, Tail(messages), now)
    ELSE ApplyMessages(ApplySpecs(st, Head(messages), now, 1), Tail(messages), now)

\* the aircraft not heard from in more than 30 minutes
Stale(acs, now) == { c \in DOMAIN acs : now - acs[c].lastHeard > StaleMinutes }

MapWithout(m, S) == [x \in DOMAIN m \ S |-> m[x]]

\* the messages the connection can deliver
Messages == { [kind |-> k, sender |-> s, callsign |-> c] :
                k \in {"@", "#AA", "#IT", "$HO", "$CR", "#??", ""},
                s \in NetworkControllers, c \in Callsigns }

MaxBatch == 1
VatsimTick == 16
MaxVatsimTime == 48

Batches == UNION { [1 .. n -> Messages] : n \in 0 .. MaxBatch }

\* a GetUpdates whose clean-up forgets the inbound handoffs
VATSIMServer_GetUpdates_KeepsHandoffs(messages, now) ==
    /\ call' = Call("GetUpdates", "", "")
    /\ ret' = NoError
    /\ \E st \in { IF connection THEN ApplyMessages(ServerState, messages, now)
                   ELSE ServerState } :
         \E gone \in { Stale(st.aircraft, IF connection THEN now ELSE ZeroTime) } :
           /\ aircraft' = MapWithout(st.aircraft, gone)
           /\ trackingControllers' = MapWithout(st.trackingControllers, gone)
           /\ outboundHandoffs' = MapWithout(st.outboundHandoffs, gone)
           /\ inboundHandoffs' = st.inboundHandoffs
           /\ controllers' = st.controllers
           /\ atcValid' = st.atcValid
           /\ posted' = st.posted \o Removals(gone)
    /\ vatsimTime' = IF connection THEN now ELSE vatsimTime
    /\ UNCHANGED connection

\* VATSIMServer.GetUpdates: the messages received are handled, then the aircraft
\* not heard from are cleaned up
VATSIMServer_GetUpdates(messages, now) ==
    /\ call' = Call("GetUpdates", "", "")
    /\ ret' = NoError
    /\ \E st \in { IF connection THEN ApplyMessages(ServerState, messages, now)
                   ELSE ServerState } :
         \E gone \in { Stale(st.aircraft, IF connection THEN now ELSE ZeroTime) } :
           /\ aircraft' = MapWithout(st.aircraft, gone)
           /\ trackingControllers' = MapWithout(st.trackingControllers, gone)
           /\ outboundHandoffs' = MapWithout(st.outboundHandoffs, gone)
           /\ inboundHandoffs' = MapWithout(st.inboundHandoffs, gone)
           /\ controllers' = st.controllers
           /\ atcValid' = st.atcValid
           /\ posted' = st.posted \o Removals(gone)
    /\ vatsimTime' = IF connection THEN now ELSE vatsimTime
    /\ UNCHANGED connection

VATSIMServer_Disconnect ==
    /\ call' = Call("Disconnect", "", "")
    /\ ret' = NoError
    /\ IF ~connection
         THEN posted' = <<>> /\ UNCHANGED vatsimVars
         ELSE /\ connection' = FALSE
              /\ posted' = Removals(DOMAIN aircraft)
              /\ aircraft' = << >>
              /\ controllers' = {}
              /\ trackingControllers' = << >>
              /\ outboundHandoffs' = << >>
              /\ inboundHandoffs' = << >>
              /\ UNCHANGED <<atcValid, vatsimTime>>

\* NewVATSIMServer, then NewVATSIMNetworkServer: connected, nothing heard yet
NewVATSIMNetworkServer ==
    /\ aircraft = << >>
    /\ trackingControllers = << >>
    /\ outboundHandoffs = << >>
    /\ inboundHandoffs = << >>
    /\ controllers = {VatsimCallsign}
    /\ connection = TRUE
    /\ atcValid = FALSE
    /\ vatsimTime = 0

----------------------------------------------------------------------------
\* The session of the network adapter: the user's commands interleaved with
\* update calls that deliver the messages received

\* the Sim's state while the adapter is the server: no simulation
NoSim ==
    /\ Aircraft = << >>
    /\ Handoffs = << >>
    /\ currentTime = 0
    /\ lastUpdateTime = 0
    /\ wallTime = 0
    /\ SimRate = 1
    /\ Paused = FALSE
    /\ ArrivalGroupRates = << >>
    /\ NextArrivalSpawn = << >>
    /\ DepartureRates = << >>
    /\ NextDepartureSpawn = << >>
    /\ DepartureChallenge = 0
    /\ lastDeparture = [i \in DOMAIN DepartureRunways |-> 0]
    /\ spawnLog = EmptySpawnLog(<< >>, << >>)
    /\ removedEvents = {}
    /\ pc = "none"

InitVatsim ==
    /\ NewVATSIMNetworkServer
    /\ NoSim
    /\ call = NoCall
    /\ ret = NoError
    /\ posted = <<>>

VatsimCommand ==
    \/ \E c \in CommandCallsigns : VATSIMServer_SetSquawk(c, 1200)
    \/ \E c \in CommandCallsigns, s \in ScratchpadInputs : VATSIMServer_SetScratchpad(c, s)
    \/ \E c \in CommandCallsigns : VATSIMServer_SetTemporaryAltitude(c, 4000)
    \/ \E c \in CommandCallsigns, t \in VatsimTargets : VATSIMServer_PushFlightStrip(c, t)
    \/ \E c \in CommandCallsigns : VATSIMServer_InitiateTrack(c)
    \/ \E c \in CommandCallsigns : VATSIMServer_DropTrack(c)
    \/ \E c \in CommandCallsigns, t \in VatsimTargets : VATSIMServer_Handoff(c, t)
    \/ \E c \in CommandCallsigns : VATSIMServer_AcceptHandoff(c)
    \/ \E c \in CommandCallsigns : VATSIMServer_RejectHandoff(c)
    \/ \E c \in CommandCallsigns, t \in VatsimTargets : VATSIMServer_PointOut(c, t)

VatsimTickStep ==
    \E d \in {0, VatsimTick}, messages \in Batches :
        /\ vatsimTime + d <= MaxVatsimTime
        /\ VATSIMServer_GetUpdates(messages, vatsimTime + d)

VatsimNext ==
    /\ pc = "none"
    /\ UNCHANGED simVars
    /\ \/ VatsimCommand
       \/ VatsimTickStep
       \/ VATSIMServer_Disconnect

SpecVatsim == InitVatsim /\ [][VatsimNext]_vars

----------------------------------------------------------------------------
\* A session of the program runs one of the two servers: the local simulation
\* or the network adapter

Init == InitSim \/ InitVatsim

Next == SimNext \/ VatsimNext

Spec == Init /\ [][Next]_vars

----------------------------------------------------------------------------
\* sampleRateMap on its own: neither server exists; a step calls the function
\* on a rate map and records the map (call.arg) and what it returned (ret).

\* the rates of the maps sampled
SampleRateInputs == {0, 10, 20, 30}

\* the rate maps sampled
SampleMaps == [{"A", "B", "C"} -> SampleRateInputs]

Sample_sampleRateMap(rates) ==
    /\ call' = Call("sampleRateMap", "", rates)
    /\ ret' \in sampleRateMap(rates)
    /\ posted' = <<>>
    /\ UNCHANGED <<simVars, vatsimVars>>

InitSample ==
    /\ NoSim
    /\ NoVATSIM
    /\ call = NoCall
    /\ ret = NoError
    /\ posted = <<>>

SampleNext == \E rates \in SampleMaps : Sample_sampleRateMap(rates)

SpecSample == InitSample /\ [][SampleNext]_vars

----------------------------------------------------------------------------
\* The dispatch loop of VATSIMServer.GetUpdates on its own, run on a table
\* whose handlers do nothing but be called: what is watched is which handlers
\* the loop calls, and in which order. A line is given by its first field.

\* the first fields of the lines received: "" is the empty first field, "#??"
\* is matched by no specification
DispatchLines == {"", "@", "#AA", "$HO", "#??"}

MaxDispatchBatch == 4

DispatchBatches == UNION { [1 .. n -> DispatchLines] : n \in 0 .. MaxDispatchBatch }

\* the table: a specification matches the lines of its kind; its handler
\* returns nil ("ok"), returns an error ("error") or is absent ("nil")
DispatchSpecs ==
    << [kind |-> "@",   handler |-> "error"],
       [kind |-> "#AA", handler |-> "ok"],
       [kind |-> "@",   handler |-> "ok"],
       [kind |-> "$HO", handler |-> "nil"],
       [kind |-> "$HO", handler |-> "ok"] >>

\* a loop over the table that leaves it at the first match
RECURSIVE InvokeSpecs_FirstMatch(_, _, _, _)
InvokeSpecs_FirstMatch(log, m, first, i) ==
    IF i > Len(DispatchSpecs) THEN log
    ELSE LET spec == DispatchSpecs[i]
         IN  IF spec.kind = first
               THEN IF spec.handler # "nil"
                      THEN Append(log, [message |-> m, spec |-> i,
                                        err |-> spec.handler = "error"])
                      ELSE log
               ELSE InvokeSpecs_FirstMatch(log, m, first, i + 1)

\* the loop over the table for message m, whose first field is first, from
\* specification i on: the calls of handlers it adds to log. An error returned
\* is written to the program's log and nothing more.
RECURSIVE InvokeSpecs(_, _, _, _)
InvokeSpecs(log, m, first, i) ==
    IF i > Len(DispatchSpecs) THEN log
    ELSE LET spec == DispatchSpecs[i]
             next == IF spec.kind = first /\ spec.handler # "nil"
                       THEN Append(log, [message |-> m, spec |-> i,
                                         err |-> spec.handler = "error"])
                       ELSE log
         IN  InvokeSpecs(next, m, first, i + 1)

\* the loop over the messages, from message m on
RECURSIVE InvokeMessages(_, _, _)
InvokeMessages(log, messages, m) ==
    IF m > Len(messages) THEN log
    ELSE IF messages[m] = "" THEN InvokeMessages(log, messages, m + 1)
    ELSE InvokeMessages(InvokeSpecs(log, m, messages[m], 1), messages, m + 1)

\* GetUpdates of a connected server receiving messages: the calls of handlers
\* it makes are the step's result. They depend on the batch alone, so a
\* behaviour is followed for one update.
Dispatch_GetUpdates(messages) ==
    /\ connection
    /\ call = NoCall
    /\ call' = Call("GetUpdates", "", messages)
    /\ ret' = InvokeMessages(<<>>, messages, 1)
    /\ posted' = <<>>
    /\ UNCHANGED <<simVars, vatsimVars>>

DispatchNext == \E messages \in DispatchBatches : Dispatch_GetUpdates(messages)

SpecDispatch == InitVatsim /\ [][DispatchNext]_vars

----------------------------------------------------------------------------
\* Squawk codes in the protocol adapter: sessions in which aircraft are
\* reported, get a flight plan and are given squawk codes automatically. An
\* aircraft's flightPlan is its flight rules ("" = no flight plan).

ErrNoFlightPlanFiled == "ErrNoFlightPlanFiled"
ErrNonIFRSquawk == "non-IFR squawk codes must be set manually"
ErrNotSignedIn == "Must be signed in to a control position"
ErrRadioNotPrimed == "Radio must be primed to assign squawk codes"
ErrNoSquawkRange == "Current position has not been assigned a squawk code range"
ErrNoFreeSquawk == "No free squawk codes"

SquawkCallsigns == {"AAL12", "UAL34"}

\* what c.GetPosition() can return for the requester's controller: no position
\* (nil), a position with no range of its own, positions with a range
SquawkPositions ==
    { [nil |-> TRUE,  lowSquawk |-> 0,    highSquawk |-> 0],
      [nil |-> FALSE, lowSquawk |-> 4601, highSquawk |-> 4601],
      [nil |-> FALSE, lowSquawk |-> 4601, highSquawk |-> 4602],
      [nil |-> FALSE, lowSquawk |-> 4601, highSquawk |-> 4603] }

\* the codes assigned to the aircraft of the server
AssignedSquawks == { aircraft[a].assignedSquawk : a \in DOMAIN aircraft }

\* the loop of SetSquawkAutomatic from the random offset: the first code
\* nobody is assigned, 0 if the loop ends without one
ProbeSquawk(pos, offset) ==
    LET n == pos.highSquawk - pos.lowSquawk
        sq(i) == pos.lowSquawk + ((i + offset) % n)
        unused == { i \in 0 .. (n - 1) : sq(i) \notin AssignedSquawks }
    IN  IF unused = {} THEN 0
        ELSE sq(CHOOSE i \in unused : \A j \in unused : i <= j)

\* VATSIMServer.SetSquawkAutomatic, pos being what GetPosition returns; the
\* code found is assigned by SetSquawk
VATSIMServer_SetSquawkAutomatic(callsign, pos) ==
    /\ call' = Call("SetSquawkAutomatic", callsign, pos)
    /\ IF ~atcValid THEN VFail(ErrNotController)
       ELSE IF callsign \notin DOMAIN aircraft THEN VFail(ErrNoAircraftForCallsign)
       ELSE IF aircraft[callsign].flightPlan = "" THEN VFail(ErrNoFlightPlanFiled)
       ELSE IF aircraft[callsign].flightPlan # "IFR" THEN VFail(ErrNonIFRSquawk)
       ELSE IF VatsimCallsign \notin controllers THEN VFail(ErrNotSignedIn)
       ELSE IF pos.nil THEN VFail(ErrRadioNotPrimed)
       ELSE IF pos.lowSquawk = pos.highSquawk THEN VFail(ErrNoSquawkRange)
       ELSE \E offset \in 0 .. (pos.highSquawk - pos.lowSquawk - 1) :
              \E sq \in { ProbeSquawk(pos, offset) } :
                IF sq = 0 THEN VFail(ErrNoFreeSquawk)
                ELSE IF trackedByAnotherController(callsign)
                THEN VFail(ErrOtherControllerHasTrack)
                ELSE /\ aircraft' = [aircraft EXCEPT ![callsign].assignedSquawk = sq]
                     /\ posted' = << Ev("ModifiedAircraft", callsign) >>
                     /\ ret' = NoError
                     /\ UNCHANGED <<trackingControllers, outboundHandoffs,
                                    inboundHandoffs, vatsimRest>>

\* amendFlightPlan, the amendment setting the flight rules: an aircraft without
\* a flight plan is given one, the plan is amended in place, and then
\* VATSIMServer.AmendFlightPlan is called with it
amendFlightPlan(callsign, rules) ==
    /\ call' = Call("amendFlightPlan", callsign, rules)
    /\ IF callsign \notin DOMAIN aircraft THEN VFail(ErrNoAircraftForCallsign)
       ELSE /\ aircraft' = [aircraft EXCEPT ![callsign].flightPlan = rules]
            /\ ret' = IF ~atcValid THEN ErrNotController
                      ELSE IF trackedByAnotherController(callsign)
                      THEN ErrOtherControllerHasTrack
                      ELSE NoError
            /\ posted' = IF ~atcValid \/ trackedByAnotherController(callsign)
                         THEN <<>> ELSE << Ev("ModifiedAircraft", callsign) >>
            /\ UNCHANGED <<trackingControllers, outboundHandoffs, inboundHandoffs,
                           vatsimRest>>

\* the messages of these sessions: position reports, tracks initiated by
\* another controller, and the validation of the session
SquawkMessages == { [kind |-> k, sender |-> s, callsign |-> c] :
                      k \in {"@", "#IT", "$CR"}, s \in NetworkControllers,
                      c \in SquawkCallsigns }

SquawkNext ==
    /\ pc = "none"
    /\ UNCHANGED simVars
    /\ \/ \E msg \in SquawkMessages : VATSIMServer_GetUpdates(<<msg>>, vatsimTime)
       \/ \E c \in SquawkCallsigns, rules \in {"IFR", "VFR"} : amendFlightPlan(c, rules)
       \/ \E c \in SquawkCallsigns, pos \in SquawkPositions :
             VATSIMServer_SetSquawkAutomatic(c, pos)

SpecSquawk == InitVatsim /\ [][SquawkNext]_vars

----------------------------------------------------------------------------
\* The connection dialog: the operator edits the rate tables of the
\* configuration, then connects, which creates the simulation from them.
\* While the dialog is open (pc = "config") ArrivalGroupRates, DepartureRates
\* and DepartureChallenge are the configuration's.

\* the default rates of the scenario
ConfigDefaults ==
    [arrivalGroupRates |-> [g \in {"G"} |-> [a \in {"KSEA"} |-> 1200]],
     departureRates |-> [a \in {"KSEA"} |->
         [r \in {"16L"} |-> [c \in {"North", "East"} |-> 1200]]],
     departureChallenge |-> 0]

\* the numbers the operator types into a rate field
ConfigRateInputs == {0 - 600, 0, 1200}

InitConfig ==
    /\ Aircraft = << >>
    /\ Handoffs = << >>
    /\ currentTime = 0
    /\ lastUpdateTime = 0
    /\ wallTime = 0
    /\ SimRate = 1
    /\ Paused = FALSE
    /\ ArrivalGroupRates = ConfigDefaults.arrivalGroupRates
    /\ DepartureRates = ConfigDefaults.departureRates
    /\ DepartureChallenge = ConfigDefaults.departureChallenge
    /\ NextArrivalSpawn = << >>
    /\ NextDepartureSpawn = << >>
    /\ lastDeparture = [i \in DOMAIN DepartureRunways |-> 0]
    /\ spawnLog = EmptySpawnLog(<< >>, << >>)
    /\ removedEvents = {}
    /\ pc = "config"
    /\ NoVATSIM
    /\ call = NoCall
    /\ ret = NoError
    /\ posted = <<>>

\* SimConnectionConfiguration.DrawUI, a frame in which the operator has typed
\* v into the ADR field of a runway and category or into the AAR field of an
\* arrival group and airport: InputIntV stores the number typed
SimConnectionConfiguration_DrawUI(v) ==
    /\ pc = "config"
    /\ \/ \E a \in DOMAIN DepartureRates : \E r \in DOMAIN DepartureRates[a] :
            \E c \in DOMAIN DepartureRates[a][r] :
              /\ DepartureRates' = [DepartureRates EXCEPT ![a][r][c] = v]
              /\ call' = Call("DrawUI", "##adr", v)
              /\ UNCHANGED ArrivalGroupRates
       \/ \E g \in DOMAIN ArrivalGroupRates : \E a \in DOMAIN ArrivalGroupRates[g] :
              /\ ArrivalGroupRates' = [ArrivalGroupRates EXCEPT ![g][a] = v]
              /\ call' = Call("DrawUI", "##aar", v)
              /\ UNCHANGED DepartureRates
    /\ ret' = NoError
    /\ posted' = <<>>
    /\ UNCHANGED <<Aircraft, Handoffs, clockVars, DepartureChallenge, NextArrivalSpawn,
                   NextDepartureSpawn, lastDeparture, spawnLog, removedEvents, pc>>

\* SimConnectionConfiguration.Connect, from the dialog or on a simulation that
\* runs (a restart with the rates it has): a removal event for every aircraft
\* of the simulation there is, sim.Disconnect, which posts them once more,
\* then NewSim on the configuration (Prespawn is the step after it). rand.Intn
\* panics in randomSpawn when 3600 / rate is not positive: then there is no
\* simulation.
SimConnectionConfiguration_Connect ==
    /\ pc \in {"config", "running"}
    /\ \A g \in DOMAIN ArrivalGroupRates : SumRates(ArrivalGroupRates[g]) \in 0 .. 3600
    /\ call' = Call("Connect", "", "")
    /\ ret' = NoError
    /\ posted' = Removals(DOMAIN Aircraft) \o Removals(DOMAIN Aircraft)
    /\ Aircraft' = << >>
    /\ Handoffs' = << >>
    /\ currentTime' = wallTime
    /\ lastUpdateTime' = wallTime
    /\ SimRate' = 1
    /\ Paused' = FALSE
    /\ NextArrivalSpawn' \in InitialArrivalSpawns(ArrivalGroupRates, wallTime)
    /\ NextDepartureSpawn' \in InitialDepartureSpawns(DepartureRates, wallTime)
    /\ spawnLog' = EmptySpawnLog(ArrivalGroupRates, DepartureRates)
    /\ removedEvents' = {}
    /\ pc' = "new"
    /\ UNCHANGED <<wallTime, rateVars, lastDeparture>>

ConfigNext ==
    /\ UNCHANGED vatsimVars
    /\ \/ \E v \in ConfigRateInputs : SimConnectionConfiguration_DrawUI(v)
       \/ SimConnectionConfiguration_Connect
       \/ Sim_Prespawn(0)

SpecConfig == InitConfig /\ [][ConfigNext]_vars

----------------------------------------------------------------------------
\* Properties of the track and handoff commands

\* which server the session runs
SimSession == pc # "none"
VatsimSession == pc = "none"

\* the step just taken is the command op on callsign c
Did(op, c) == call'.op = op /\ call'.callsign = c

\* the controllers a successful Handoff of the Sim can name as destination
HandoffDestinations == { Sim_GetController(t) : t \in HandoffTargets } \ {""}

\* InboundHandoffController / GetTrackingController of the adapter
InboundHandoffController(callsign) ==
    IF callsign \in DOMAIN inboundHandoffs THEN inboundHandoffs[callsign] ELSE ""

GetTrackingController(callsign) ==
    IF callsign \in DOMAIN trackingControllers THEN trackingControllers[callsign] ELSE ""

\* C1: in the Sim, a tick that is not past the deadline of a handoff record
\* leaves the record and the aircraft's trackingController as they are, and the
\* tick that is past it removes the record and leaves trackingController equal
\* to the destination of the Handoff, whichever commands (DropTrack,
\* CancelHandoff, ...) came in between.
C1_HandoffCompletes ==
    [][ \A c \in DOMAIN Handoffs :
          (SimSession /\ call'.op = "GetUpdates" /\ c \in DOMAIN Aircraft /\ c \in DOMAIN Aircraft')
          => IF currentTime' > Handoffs[c]
             THEN /\ c \notin DOMAIN Handoffs'
                  /\ Aircraft'[c].TrackingController \in HandoffDestinations
             ELSE /\ c \in DOMAIN Handoffs'
                  /\ Aircraft'[c].TrackingController = Aircraft[c].TrackingController ]_vars

C3_ScratchpadAtMostThree ==
    /\ \A c \in DOMAIN Aircraft : Len(Aircraft[c].Scratchpad) <= 3
    /\ \A c \in DOMAIN aircraft : Len(aircraft[c].scratchpad) <= 3

\* C4: a command that returns an error leaves the registry, every aircraft
\* field and the handoff records as they were, and a command that does not take
\* effect returns an error: a ClearedApproach that returns success has cleared
\* the aircraft for the approach, a DirectFix that returns success has made the
\* fix the aircraft's next waypoint.
C4_NoEffectReportsFailure ==
    [][ SimSession =>
          /\ ret' # NoError => UNCHANGED <<Aircraft, Handoffs>>
          /\ \A c \in DOMAIN Aircraft :
                /\ (Did("ClearedApproach", c) /\ ret' = NoError)
                   => Aircraft'[c].ClearedApproach
                /\ (Did("DirectFix", c) /\ ret' = NoError)
                   => Aircraft'[c].Waypoints[1].Fix = call'.arg ]_vars

\* C5: InitiateTrack on an existing aircraft succeeds only when the aircraft is
\* untracked, and then sets trackingController to the requester; when any
\* controller, the requester included, tracks the aircraft, it fails with
\* OtherControllerHasTrack and leaves trackingController unchanged.  (The
\* adapter: for a session validated as a controller.)
C5_InitiateTrackOnlyUntracked ==
    [][ \A c \in Callsigns :
          /\ (SimSession /\ Did("InitiateTrack", c) /\ c \in DOMAIN Aircraft)
             => IF Aircraft[c].TrackingController = ""
                THEN ret' = NoError /\ Aircraft'[c].TrackingController = ScenarioCallsign
                ELSE ret' = ErrOtherControllerHasTrack /\ UNCHANGED simVars
          /\ (VatsimSession /\ atcValid /\ Did("InitiateTrack", c) /\ c \in DOMAIN aircraft)
             => IF c \notin DOMAIN trackingControllers
                THEN /\ ret' = NoError
                     /\ c \in DOMAIN trackingControllers'
                     /\ trackingControllers'[c] = VatsimCallsign
                ELSE ret' = ErrOtherControllerHasTrack /\ UNCHANGED trackingControllers ]_vars

\* C6: DropTrack on an existing aircraft succeeds only when the requester is
\* its trackingController, and then clears trackingController; when another
\* controller or nobody tracks the aircraft it fails with
\* OtherControllerHasTrack and changes nothing.  (The adapter: for a session
\* validated as a controller.)
C6_DropTrackOnlyOwnTrack ==
    [][ \A c \in Callsigns :
          /\ (SimSession /\ Did("DropTrack", c) /\ c \in DOMAIN Aircraft)
             => IF Aircraft[c].TrackingController = ScenarioCallsign
                THEN ret' = NoError /\ Aircraft'[c].TrackingController = ""
                ELSE ret' = ErrOtherControllerHasTrack /\ UNCHANGED simVars
          /\ (VatsimSession /\ atcValid /\ Did("DropTrack", c) /\ c \in DOMAIN aircraft)
             => IF GetTrackingController(c) = VatsimCallsign
                THEN ret' = NoError /\ c \notin DOMAIN trackingControllers'
                ELSE ret' = ErrOtherControllerHasTrack /\ UNCHANGED vatsimVars ]_vars

\* C7: Handoff on an existing aircraft takes effect only when the requester is
\* its trackingController and the target controller exists; when the requester
\* does not hold the track it fails with OtherControllerHasTrack, when the
\* target is unknown with NoController, and both failures leave
\* outboundHandoffController and the handoff records unchanged.  (The adapter:
\* for a session validated as a controller; of its failure without the track
\* only that it is one is required here.)
C7_HandoffOnlyOwnTrack ==
    [][ \A c \in Callsigns :
          /\ (SimSession /\ Did("Handoff", c) /\ c \in DOMAIN Aircraft)
             => IF Aircraft[c].TrackingController # ScenarioCallsign
                THEN ret' = ErrOtherControllerHasTrack /\ UNCHANGED <<Aircraft, Handoffs>>
                ELSE IF Sim_GetController(call'.arg) = ""
                THEN ret' = ErrNoController /\ UNCHANGED <<Aircraft, Handoffs>>
                ELSE /\ ret' = NoError
                     /\ Aircraft'[c].OutboundHandoffController = Sim_GetController(call'.arg)
                     /\ c \in DOMAIN Handoffs'
          /\ (VatsimSession /\ atcValid /\ Did("Handoff", c) /\ c \in DOMAIN aircraft)
             => IF GetTrackingController(c) # VatsimCallsign
                THEN ret' # NoError /\ UNCHANGED outboundHandoffs
                ELSE IF call'.arg \notin controllers
                THEN ret' = ErrNoController /\ UNCHANGED outboundHandoffs
                ELSE /\ ret' = NoError
                     /\ c \in DOMAIN outboundHandoffs'
                     /\ outboundHandoffs'[c] = call'.arg ]_vars

\* C8 (as stated): the record a successful Handoff of the Sim creates has the
\* deadline now + d with 2 <= d < 10 seconds.
C8_DeadlineAsStated ==
    [][ \A c \in Callsigns :
          (SimSession /\ Did("Handoff", c) /\ ret' = NoError)
          => /\ c \in DOMAIN Handoffs'
             /\ currentTime + 2 <= Handoffs'[c]
             /\ Handoffs'[c] < currentTime + 10 ]_vars

\* C8 (amended): the record a successful Handoff of the Sim creates has the
\* deadline now + d with 2 <= d < 12 seconds (d = 2 + rand.Intn(10)).
C8_DeadlineAmended ==
    [][ \A c \in Callsigns :
          (SimSession /\ Did("Handoff", c) /\ ret' = NoError)
          => /\ c \in DOMAIN Handoffs'
             /\ currentTime + 2 <= Handoffs'[c]
             /\ Handoffs'[c] < currentTime + 12 ]_vars

\* a Handoff has just drawn the longest delay, 11 seconds
C8_LongestDelayDrawn ==
    /\ SimSession
    /\ call.op = "Handoff"
    /\ ret = NoError
    /\ call.callsign \in DOMAIN Handoffs
    /\ Handoffs[call.callsign] = currentTime + 11

\* C9: CancelHandoff on an existing aircraft of the Sim takes effect only when
\* the requester is its trackingController, and then clears
\* outboundHandoffController and leaves trackingController equal to the
\* requester; otherwise it fails and changes nothing.
C9_CancelHandoff ==
    [][ \A c \in Callsigns :
          (SimSession /\ Did("CancelHandoff", c) /\ c \in DOMAIN Aircraft)
          => IF Aircraft[c].TrackingController = ScenarioCallsign
             THEN /\ ret' = NoError
                  /\ Aircraft'[c] = [Aircraft[c] EXCEPT !.OutboundHandoffController = ""]
                  /\ Aircraft'[c].TrackingController = ScenarioCallsign
             ELSE ret' # NoError /\ UNCHANGED simVars ]_vars

\* a CancelHandoff has just withdrawn an offer made by Handoff: the record of
\* the offer is still there, the offer is not, the track is the requester's
C9_OfferCancelled ==
    /\ SimSession
    /\ call.op = "CancelHandoff"
    /\ ret = NoError
    /\ call.callsign \in DOMAIN Handoffs
    /\ Aircraft[call.callsign].OutboundHandoffController = ""
    /\ Aircraft[call.callsign].TrackingController = ScenarioCallsign

\* the commands of the ATC command service the sessions issue
CommandOps ==
    {"SetScratchpad", "InitiateTrack", "DropTrack", "Handoff", "AcceptHandoff",
     "CancelHandoff"} \cup SimUnimplemented

\* C10: every command of the service called with a callsign that is not in the
\* registry returns NoAircraftForCallsign and changes no state.
C10_UnknownCallsign ==
    [][ \A c \in CommandCallsigns :
          /\ (SimSession /\ call'.op \in CommandOps /\ call'.callsign = c
                /\ c \notin DOMAIN Aircraft)
             => ret' = ErrNoAircraftForCallsign /\ UNCHANGED simVars
          /\ (VatsimSession /\ call'.op \in CommandOps /\ call'.callsign = c
                /\ c \notin DOMAIN aircraft)
             => ret' = ErrNoAircraftForCallsign /\ UNCHANGED vatsimVars ]_vars

----------------------------------------------------------------------------
\* C11: in every reachable state of the local simulation, an aircraft whose
\* outbound handoff controller is set is tracked by somebody
C11_OutboundImpliesTracked ==
    SimSession =>
        \A c \in DOMAIN Aircraft :
            Aircraft[c].OutboundHandoffController # "" =>
                Aircraft[c].TrackingController # ""

----------------------------------------------------------------------------
\* how many times the event e is in the sequence of events published
EventCount(events, e) == Cardinality({ i \in DOMAIN events : events[i] = e })

\* the fields of a Sim aircraft that an update tick never writes
SameAircraft(a, b) ==
    /\ a.Scratchpad = b.Scratchpad
    /\ a.InboundHandoffController = b.InboundHandoffController
    /\ a.Waypoints = b.Waypoints
    /\ a.FlightPlan = b.FlightPlan
    /\ a.Approach = b.Approach

\* C12: a spawn (an update of the simulation, or its pre-spawn) never replaces
\* the aircraft a callsign already maps to and publishes no AddedAircraft for
\* it, and publishes at most one for a callsign it adds; the adapter's
\* get-or-create, run by an update for the messages received, keeps the entity
\* of a callsign it knows and publishes no AddedAircraft for it
C12_OneAircraftPerCallsign ==
    [][ /\ (SimSession /\ call'.op \in {"GetUpdates", "Prespawn"}) =>
             \A c \in Callsigns :
                /\ EventCount(posted', Ev("AddedAircraft", c)) <= 1
                /\ c \in DOMAIN Aircraft \ removedEvents =>
                      /\ c \in DOMAIN Aircraft'
                      /\ SameAircraft(Aircraft'[c], Aircraft[c])
                      /\ EventCount(posted', Ev("AddedAircraft", c)) = 0
        /\ (VatsimSession /\ call'.op = "GetUpdates") =>
             \A c \in Callsigns :
                /\ EventCount(posted', Ev("AddedAircraft", c)) <= 1
                /\ c \in DOMAIN aircraft =>
                      /\ EventCount(posted', Ev("AddedAircraft", c)) = 0
                      /\ c \in DOMAIN aircraft' =>
                            /\ aircraft'[c].scratchpad = aircraft[c].scratchpad
                            /\ aircraft'[c].assignedSquawk = aircraft[c].assignedSquawk
                            /\ aircraft'[c].tempAltitude = aircraft[c].tempAltitude
      ]_vars

\* an update of the simulation has just re-armed the arrival timer, so it ran a
\* spawn, for the callsign of an aircraft the user had already worked on
C12_SpawnOnPresentCallsign ==
    /\ SimSession
    /\ call.op = "GetUpdates"
    /\ NextArrivalSpawn["G"] > currentTime
    /\ "AAL12" \in DOMAIN Aircraft
    /\ Aircraft["AAL12"].Scratchpad = "ABC"
    /\ posted = <<>>

----------------------------------------------------------------------------
\* Properties of the clock

\* C13: an update while not paused advances the virtual time by exactly the
\* wall-clock time since the reference point times SimRate, an update while
\* paused leaves it unchanged, and the virtual time never decreases
C13_AdvanceExact ==
    [][ (SimSession /\ call'.op = "GetUpdates") =>
           /\ currentTime' = IF Paused THEN currentTime
                              ELSE currentTime + SimRate * (wallTime' - lastUpdateTime)
           /\ currentTime' >= currentTime
      ]_vars

\* C14: while the simulation is paused the commands take their effect, and an
\* update changes no aircraft, no handoff record, no spawn timer and not the
\* virtual time, and publishes nothing
C14_PausedFreezesTimeOnly ==
    [][ (SimSession /\ Paused) =>
           /\ call'.op = "GetUpdates" =>
                 /\ UNCHANGED <<Aircraft, Handoffs, NextArrivalSpawn, currentTime>>
                 /\ posted' = <<>>
           /\ \A c \in DOMAIN Aircraft :
                 LET ac == Aircraft[c]
                     mine == ac.TrackingController = ScenarioCallsign
                 IN  /\ (Did("InitiateTrack", c) /\ ac.TrackingController = "") =>
                          (ret' = NoError /\ Aircraft'[c].TrackingController = ScenarioCallsign)
                     /\ (Did("DropTrack", c) /\ mine) =>
                          (ret' = NoError /\ Aircraft'[c].TrackingController = "")
                     /\ (Did("Handoff", c) /\ mine) =>
                          /\ ret' = NoError
                          /\ Aircraft'[c].OutboundHandoffController = Sim_GetController(call'.arg)
                          /\ c \in DOMAIN Handoffs'
                     /\ (Did("AcceptHandoff", c) /\ ac.InboundHandoffController = ScenarioCallsign) =>
                          (ret' = NoError /\ Aircraft'[c].TrackingController = ScenarioCallsign)
                     /\ (Did("CancelHandoff", c) /\ mine) =>
                          (ret' = NoError /\ Aircraft'[c].OutboundHandoffController = "")
                     /\ (Did("SetScratchpad", c) /\ mine) =>
                          (ret' = NoError /\ Aircraft'[c].Scratchpad = call'.arg)
                     /\ (Did("AssignAltitude", c) /\ ac.AssignedSpeed = 0) =>
                          (ret' = NoError /\ Aircraft'[c].AssignedAltitude = 4000)
      ]_vars

\* an update was called while paused, at a wall time at which, had the clock
\* run, a handoff given while paused would have been accepted and an arrival
\* spawned
C14_PausedPastDeadline ==
    /\ SimSession
    /\ Paused
    /\ call.op = "GetUpdates"
    /\ "AAL12" \in DOMAIN Handoffs
    /\ Handoffs["AAL12"] < currentTime + SimRate * (wallTime - lastUpdateTime)
    /\ NextArrivalSpawn["G"] < currentTime + SimRate * (wallTime - lastUpdateTime)
    /\ Aircraft["AAL12"].OutboundHandoffController = "NY_CTR"

\* C15: pressing the pause button or changing the simulation rate resets the
\* wall-clock reference point to the time of the change and leaves the virtual
\* time as it is
C15_ReferencePointReset ==
    [][ (/\ SimSession
         /\ \/ call'.op = "TogglePause"
            \/ call'.op = "SetSimRate" /\ SimRate' # SimRate) =>
           /\ lastUpdateTime' = wallTime'
           /\ currentTime' = currentTime
      ]_vars

\* C16 (as stated): for a key whose rates sum to 30 an hour, the virtual time
\* between two consecutive spawns is between 102 and 138 seconds, whatever the
\* draws and the frames.
C16_IntervalWithinJitter ==
    [][ LET before == spawnLog.arrivals["G"]
            after  == spawnLog'.arrivals["G"]
        IN  (after.count # before.count /\ before.count > 0)
               => (after.last - before.last) \in 102 .. 138 ]_vars

\* C16 (amended): each spawn for a key whose rates sum to 30 an hour re-arms
\* the timer of the key to between 102 and 138 seconds after the virtual time
\* of the spawn, and two consecutive spawns are more than 102 seconds apart;
\* the spawn itself waits for the first update after the timer.
C16_RearmWithinJitter ==
    [][ LET before == spawnLog.arrivals["G"]
            after  == spawnLog'.arrivals["G"]
        IN  after.count # before.count
               => /\ (NextArrivalSpawn'["G"] - after.last) \in 102 .. 138
                  /\ before.count > 0 => after.last - before.last > 102 ]_vars

\* C16 witness: an update has spawned the second aircraft of the group or a later one
C16_SecondSpawn ==
    /\ call.op = "GetUpdates"
    /\ spawnLog.arrivals["G"].count >= 2
    /\ spawnLog.arrivals["G"].last = currentTime
\* C17: during the first 24 hours of virtual time of a simulation, the initial
\* pre-spawn included, no aircraft is created for an arrival group or a
\* departure runway whose rates sum to 0: the timer of such a group is not due
\* and such a runway has no timer.
C17_ZeroRateNeverSpawns ==
    currentTime <= DaySeconds =>
       /\ \A g \in DOMAIN ArrivalGroupRates :
             SumRates(ArrivalGroupRates[g]) = 0 =>
                /\ spawnLog.arrivals[g].count = 0
                /\ NextArrivalSpawn[g] > currentTime
       /\ \A a \in DOMAIN DepartureRates : \A r \in DOMAIN DepartureRates[a] :
             SumRates(DepartureRates[a][r]) = 0 =>
                /\ spawnLog.departures[a][r].count = 0
                /\ a \in DOMAIN NextDepartureSpawn => r \notin DOMAIN NextDepartureSpawn[a]

\* C17 witness: 24 hours have passed in a simulation that has a group and a
\* runway with rate 0, and whose other runway has spawned departures
C17_DayWithZeroRate ==
    /\ pc = "running"
    /\ call.op = "GetUpdates"
    /\ currentTime >= DaySeconds
    /\ SumRates(ArrivalGroupRates["G"]) = 0
    /\ SumRates(DepartureRates["KSEA"]["16L"]) = 0
    /\ spawnLog.departures["KSEA"]["16R"].count > 1
\* C18 (upper bound): with the arrival rates {KSEA: 20} of one group and no
\* pause, at most 69 arrivals are spawned during the first 3 hours of virtual
\* time, whatever the draws.  The aircraft counted are those created after
\* the simulation's start: the pre-spawn creates at most one for this rate
\* (the shortest wait, 153 s, is longer than the 45 s it covers), which the
\* bound below leaves out of the 69.
C18_ArrivalsWithinBand ==
    (pc = "running" /\ currentTime <= 3 * 3600)
       => spawnLog.arrivals["H"].count <= 69 + 1
C20_ClearedApproachILS ==
    [][ LET c == call'.callsign
            a == call'.arg
        IN  ( /\ call'.op = "ClearedApproach"
              /\ getApproach(c, a) = NoError
              /\ Airports[Aircraft[c].FlightPlan.ArrivalAirport][a].Type = ILSApproach
              /\ Aircraft[c].Approach \in {"", a}
              /\ ~Aircraft[c].ClearedApproach
              /\ Aircraft[c].AssignedHeading = 0
              /\ Len(Aircraft[c].Waypoints) > 0 )
            => LET routes == Airports[Aircraft[c].FlightPlan.ArrivalAirport][a].Waypoints
                   fix    == Aircraft[c].Waypoints[1].Fix
                   after(r) == SubSeq(routes[r], FixIndex(routes[r], fix) + 1, Len(routes[r]))
                   has    == { r \in DOMAIN routes : FixIndex(routes[r], fix) # 0 }
               IN  IF has = {}
                   THEN /\ ret' # NoError
                        /\ ~Aircraft'[c].ClearedApproach
                   ELSE /\ ret' = NoError
                        /\ Aircraft'[c].ClearedApproach
                        /\ \E r \in has :
                              Aircraft'[c].Waypoints = Aircraft[c].Waypoints \o after(r) ]_vars
\* C21: ClearedApproach naming another approach than the one the aircraft
\* expects or is cleared for fails with ClearedForUnexpectedApproach and leaves
\* the aircraft (its approach, cleared flag, waypoints, speed restrictions) as
\* it was.
C21_UnexpectedApproach ==
    [][ LET c == call'.callsign
            a == call'.arg
        IN  ( /\ call'.op = "ClearedApproach"
              /\ getApproach(c, a) = NoError
              /\ Aircraft[c].Approach \notin {"", a} )
            => /\ ret' = ErrClearedForUnexpectedApproach
               /\ Aircraft' = Aircraft ]_vars

\* C21 witness: an aircraft cleared for the ILS has been cleared for the RNAV
\* approach and the command has failed
C21_ClearedForAnother ==
    /\ call.op = "ClearedApproach"
    /\ call.arg = "R6R"
    /\ ret = ErrClearedForUnexpectedApproach
    /\ Aircraft[call.callsign].Approach = "I6L"
    /\ Aircraft[call.callsign].ClearedApproach
\* C22: a heading command that succeeds (AssignHeading, TurnLeft, TurnRight)
\* leaves the aircraft not cleared for its approach, and an aircraft that is
\* not cleared becomes cleared only by a ClearedApproach for it that succeeds.
C22_VectorCancelsClearance ==
    [][ /\ ( /\ call'.op \in {"AssignHeading", "TurnLeft", "TurnRight"}
             /\ ret' = NoError )
           => ~Aircraft'[call'.callsign].ClearedApproach
        /\ \A c \in DOMAIN Aircraft \cap DOMAIN Aircraft' :
             (~Aircraft[c].ClearedApproach /\ Aircraft'[c].ClearedApproach)
                => /\ call' = Call("ClearedApproach", c, Aircraft'[c].Approach)
                   /\ ret' = NoError ]_vars

\* C22 witness: an aircraft that was cleared for the ILS (the approach's
\* waypoints are on its route) has been turned left and is no longer cleared
C22_VectoredAfterClearance ==
    /\ call.op = "TurnLeft"
    /\ ret = NoError
    /\ LET ac == Aircraft[call.callsign]
       IN  /\ ~ac.ClearedApproach
           /\ ac.Approach = "I6L"
           /\ \E i \in DOMAIN ac.Waypoints : ac.Waypoints[i].Fix = "RWY"
\* C23: AssignAltitude sets the assigned altitude at once unless a speed is
\* assigned, in which case it stores the altitude as the one to take after
\* the speed and leaves the assigned altitude as it is; AssignSpeed that the
\* pilot accepts, AssignSpeed(0) included, does the same with the roles of
\* speed and altitude exchanged.
C23_DeferredAssignment ==
    [][ LET c   == call'.callsign
            v   == call'.arg
            ac  == Aircraft[c]
            ac2 == Aircraft'[c]
        IN  /\ (call'.op = "AssignAltitude" /\ ret' = NoError)
               => IF ac.AssignedSpeed # 0
                  THEN /\ ac2.AssignedAltitudeAfterSpeed = v
                       /\ ac2.AssignedAltitude = ac.AssignedAltitude
                  ELSE /\ ac2.AssignedAltitude = v
                       /\ ac2.AssignedAltitudeAfterSpeed = ac.AssignedAltitudeAfterSpeed
            /\ (call'.op = "AssignSpeed" /\ ret' = NoError)
               => IF ac.AssignedAltitude # 0
                  THEN /\ ac2.AssignedSpeedAfterAltitude = v
                       /\ ac2.AssignedSpeed = ac.AssignedSpeed
                  ELSE /\ ac2.AssignedSpeed = v
                       /\ ac2.AssignedSpeedAfterAltitude = ac.AssignedSpeedAfterAltitude ]_vars

\* C23 witness: AssignSpeed has been deferred on an aircraft with an assigned
\* altitude, and AssignAltitude on an aircraft with an assigned speed
C23_Deferred ==
    /\ call.op \in {"AssignSpeed", "AssignAltitude"}
    /\ ret = NoError
    /\ LET ac == Aircraft[call.callsign]
       IN  \/ call.op = "AssignSpeed" /\ ac.AssignedAltitude # 0
              /\ ac.AssignedSpeedAfterAltitude = 180 /\ ac.AssignedSpeed # 180
           \/ call.op = "AssignAltitude" /\ ac.AssignedSpeed # 0
              /\ ac.AssignedAltitudeAfterSpeed = 4000 /\ ac.AssignedAltitude # 4000
\* C24: in the protocol adapter, an update leaves no aircraft in the registry
\* that has not been heard from for more than 30 minutes; an aircraft it
\* removes is gone from the registry, the tracking map and both handoff maps
\* in that same step, with exactly one removal event; and no callsign is in
\* the tracking map or a handoff map without being in the registry.
C24_StaleEviction ==
    [][ /\ (call'.op = "GetUpdates" /\ connection')
           => /\ \A c \in DOMAIN aircraft' :
                    vatsimTime' - aircraft'[c].lastHeard <= StaleMinutes
              /\ \A c \in DOMAIN aircraft \ DOMAIN aircraft' :
                    /\ c \notin DOMAIN trackingControllers'
                    /\ c \notin DOMAIN outboundHandoffs'
                    /\ c \notin DOMAIN inboundHandoffs'
                    /\ EventCount(posted', Ev("RemovedAircraft", c)) = 1
        /\ (DOMAIN trackingControllers' \cup DOMAIN outboundHandoffs'
               \cup DOMAIN inboundHandoffs') \subseteq DOMAIN aircraft' ]_vars

\* C24 witness: an update has removed an aircraft from the registry and has
\* published its removal
C24_Evicted ==
    /\ call.op = "GetUpdates"
    /\ connection
    /\ \E c \in Callsigns :
         /\ c \notin DOMAIN aircraft
         /\ EventCount(posted, Ev("RemovedAircraft", c)) = 1
\* C25: Disconnect, in the local simulation and in the protocol adapter,
\* publishes a removal event for every aircraft that was in the registry and
\* leaves the registry, the spawn timers and the pending handoff records
\* empty.
C25_DisconnectEmpties ==
    [][ call'.op = "Disconnect" =>
          /\ \A c \in DOMAIN Aircraft \cup DOMAIN aircraft :
                EventCount(posted', Ev("RemovedAircraft", c)) >= 1
          /\ Aircraft' = << >> /\ aircraft' = << >>
          /\ NextArrivalSpawn' = << >> /\ NextDepartureSpawn' = << >>
          /\ Handoffs' = << >>
          /\ outboundHandoffs' = << >> /\ inboundHandoffs' = << >> ]_vars
\* the handlers the dispatcher has to call for a batch: those of the
\* specifications that match a line whose first field is not empty
DueCalls(messages) ==
    { <<m, i>> \in (DOMAIN messages) \X (DOMAIN DispatchSpecs) :
        /\ messages[m] # ""
        /\ DispatchSpecs[i].kind = messages[m]
        /\ DispatchSpecs[i].handler # "nil" }

\* C26: for a batch of lines, the dispatcher calls the handler of every
\* specification that matches a line with a non-empty first field, each once
\* and no other, line by line in the order received and, for one line, in
\* the order of the table; a handler's error, a line nothing matches and a
\* line with an empty first field stop none of it.
C26_EveryMatchInOrder ==
    [][ call'.op = "GetUpdates" =>
          LET messages == call'.arg
              log == ret'
          IN  /\ { <<log[p].message, log[p].spec>> : p \in DOMAIN log } = DueCalls(messages)
              /\ Len(log) = Cardinality(DueCalls(messages))
              /\ \A p, q \in DOMAIN log :
                    p < q => \/ log[p].message < log[q].message
                             \/ /\ log[p].message = log[q].message
                                /\ log[p].spec < log[q].spec ]_vars

\* C26 witness: a batch of a line with an empty first field, a line two
\* specifications match, the first with a handler that fails, and a line
\* nothing matches before a last line; all the handlers due were called
C26_DispatchedPastErrors ==
    /\ call.op = "GetUpdates"
    /\ call.arg = <<"", "@", "#??", "#AA">>
    /\ ret = << [message |-> 2, spec |-> 1, err |-> TRUE],
                [message |-> 2, spec |-> 3, err |-> FALSE],
                [message |-> 4, spec |-> 2, err |-> FALSE] >>
\* the requester of a session's commands, and whether the session's server
\* knows a controller by the name t
Requester == IF SimSession THEN ScenarioCallsign ELSE VatsimCallsign
KnownController(t) == IF SimSession THEN Sim_GetController(t) # "" ELSE t \in controllers

\* what the command service lets its client see of aircraft c in the session's
\* server: whether it exists, who tracks it, whether it is offered to the
\* requester, and its scratchpad
Seen(c) ==
    IF SimSession
      THEN IF c \in DOMAIN Aircraft
             THEN [present |-> TRUE,
                   tracker |-> Aircraft[c].TrackingController,
                   offered |-> Aircraft[c].InboundHandoffController = ScenarioCallsign,
                   scratchpad |-> Aircraft[c].Scratchpad]
             ELSE [present |-> FALSE, tracker |-> "", offered |-> FALSE, scratchpad |-> ""]
      ELSE IF c \in DOMAIN aircraft
             THEN [present |-> TRUE,
                   tracker |-> GetTrackingController(c),
                   offered |-> c \in DOMAIN inboundHandoffs,
                   scratchpad |-> aircraft[c].scratchpad]
             ELSE [present |-> FALSE, tracker |-> "", offered |-> FALSE, scratchpad |-> ""]

\* the track and handoff commands both servers implement
TrackOps == {"InitiateTrack", "DropTrack", "Handoff", "CancelHandoff", "AcceptHandoff",
             "SetScratchpad"}

\* the error the Sim answers a command with, by what is seen of the aircraft
\* (known: the controller named is known)
SimAnswer(op, seen, known) ==
    IF ~seen.present THEN ErrNoAircraftForCallsign
    ELSE CASE op = "InitiateTrack" ->
                IF seen.tracker # "" THEN ErrOtherControllerHasTrack ELSE NoError
           [] op = "AcceptHandoff" ->
                IF ~seen.offered THEN ErrNotBeingHandedOffToMe ELSE NoError
           [] op = "Handoff" ->
                IF seen.tracker # Requester THEN ErrOtherControllerHasTrack
                ELSE IF ~known THEN ErrNoController ELSE NoError
           [] OTHER ->
                IF seen.tracker # Requester THEN ErrOtherControllerHasTrack ELSE NoError

\* the tracking controller and the scratchpad the Sim leaves after the command
SimOutcome(op, seen, arg) ==
    IF SimAnswer(op, seen, TRUE) # NoError \/ op \in {"Handoff", "CancelHandoff"}
      THEN [tracker |-> seen.tracker, scratchpad |-> seen.scratchpad]
    ELSE CASE op \in {"InitiateTrack", "AcceptHandoff"} ->
                [tracker |-> Requester, scratchpad |-> seen.scratchpad]
           [] op = "DropTrack" -> [tracker |-> "", scratchpad |-> seen.scratchpad]
           [] op = "SetScratchpad" -> [tracker |-> seen.tracker, scratchpad |-> arg]

\* C27: the local simulation and the protocol adapter (its session validated
\* as a controller) answer a track or handoff command alike: by what the
\* client sees of the aircraft, the error returned is the same in both, and
\* so are the tracking controller and the scratchpad seen afterwards.
C27_SameAnswers ==
    [][ \A c \in CommandCallsigns :
          (call'.op \in TrackOps /\ call'.callsign = c /\ (SimSession \/ atcValid)) =>
            LET answer == SimAnswer(call'.op, Seen(c), KnownController(call'.arg))
            IN  /\ ret' = answer
                /\ Seen(c)'.tracker = SimOutcome(call'.op, Seen(c), call'.arg).tracker
                /\ Seen(c)'.scratchpad = SimOutcome(call'.op, Seen(c), call'.arg).scratchpad ]_vars
\* the codes of a position's range that no aircraft is assigned
FreeSquawks(pos) == (pos.lowSquawk .. pos.highSquawk) \ AssignedSquawks

\* C28: in a validated session, SetSquawkAutomatic on an aircraft nobody else
\* tracks, the requester's position being known: without a flight plan, with
\* flight rules other than IFR or with a range whose low and high are equal it
\* fails and assigns nothing; otherwise it assigns a code of [lowSquawk,
\* highSquawk] that no aircraft was assigned, and fails, with the exhaustion
\* error, only when no code of the range is free.
C28_AutomaticSquawk ==
    [][ \A c \in SquawkCallsigns :
          ( /\ call'.op = "SetSquawkAutomatic" /\ call'.callsign = c /\ ~call'.arg.nil
            /\ atcValid /\ c \in DOMAIN aircraft /\ ~trackedByAnotherController(c) )
          => IF \/ aircraft[c].flightPlan # "IFR"
                \/ call'.arg.lowSquawk = call'.arg.highSquawk
             THEN ret' # NoError /\ aircraft' = aircraft
             ELSE IF FreeSquawks(call'.arg) = {}
             THEN ret' = ErrNoFreeSquawk /\ aircraft' = aircraft
             ELSE /\ ret' = NoError
                  /\ aircraft'[c].assignedSquawk \in FreeSquawks(call'.arg) ]_vars
\* the events that tell of an aircraft's lifecycle, and the commands that
\* have to publish one
LifecycleEvents == {"ModifiedAircraft", "AddedAircraft", "RemovedAircraft",
                    "InitiatedTrack", "DroppedTrack", "AcceptedHandoff"}
LifecycleOps == {"InitiateTrack", "DropTrack", "Handoff", "AcceptHandoff", "CancelHandoff",
                 "SetScratchpad", "AssignAltitude", "AssignHeading", "AssignSpeed",
                 "ClearedApproach"}

\* a lifecycle event for aircraft c is among the events
LifecyclePosted(events, c) ==
    \E i \in DOMAIN events : events[i].callsign = c /\ events[i].ev \in LifecycleEvents

\* C29: in the local simulation, a track, handoff or navigation command that
\* succeeds and changes its aircraft, and an update that completes the handoff
\* of an aircraft, publish a lifecycle event for that aircraft.
C29_ChangePublished ==
    [][ SimSession =>
          \A c \in DOMAIN Aircraft \cap DOMAIN Aircraft' :
            /\ ( /\ call'.op \in LifecycleOps /\ call'.callsign = c /\ ret' = NoError
                 /\ Aircraft'[c] # Aircraft[c] )
               => LifecyclePosted(posted', c)
            /\ ( /\ call'.op = "GetUpdates"
                 /\ c \in DOMAIN Handoffs /\ c \notin DOMAIN Handoffs' )
               => LifecyclePosted(posted', c) ]_vars
\* C30: every rate of the arrival and of the departure rate table is at least
\* 0 in every reachable state, the operator's edits in the connection dialog
\* included.
C30_RatesNonNegative ==
    /\ \A g \in DOMAIN ArrivalGroupRates : \A a \in DOMAIN ArrivalGroupRates[g] :
          ArrivalGroupRates[g][a] >= 0
    /\ \A a \in DOMAIN DepartureRates : \A r \in DOMAIN DepartureRates[a] :
          \A c \in DOMAIN DepartureRates[a][r] : DepartureRates[a][r][c] >= 0

----------------------------------------------------------------------------
\* C31: a spawn attempt whose configuration lookup fails (no route for the
\* sampled airport, no runway entry for the sampled category, airline, fleet
\* or aircraft type missing from the database) is skipped and the simulation
\* goes on: whatever the lookups of a tick give, the simulation is running
\* after it.
C31_LookupFailureSkipped ==
    [][call'.op \in {"Prespawn", "GetUpdates"} => pc' = "running"]_vars

\* C32: a departure spawned for a runway entry with a category flies an exit
\* of that category, whether SpawnDeparture drew it uniformly, repeated the
\* last departure of the entry or drew one of the last departure's category:
\* the departure of the entry's last spawn and the entry's category agree.
C32_ExitOfCategory ==
    \A idx \in DOMAIN DepartureRunways :
       LET rwy == DepartureRunways[idx]
           ap  == DepartureAirports[rwy.Airport]
       IN  (rwy.Category # "" /\ lastDeparture[idx] # 0)
             => ap.ExitCategories[ap.Departures[lastDeparture[idx]].Exit] = rwy.Category

\* both entries of the runway have spawned, the North one its second exit,
\* and the aircraft in the registry flies an exit of its entry
C32_BothCategoriesSpawned ==
    /\ pc = "running"
    /\ DepartureChallenge > 0
    /\ lastDeparture[5] = 2
    /\ lastDeparture[6] = 3
    /\ spawnLog.departures["KRNT"]["34"].count >= 3
    /\ "AAL12" \in DOMAIN Aircraft
    /\ Aircraft["AAL12"].Scratchpad \in {"E4", "E5", "E6"}

\* C33: the categories of a runway share one timer, so an update creates at
\* most one departure for an (airport, runway), and two consecutive departures
\* of the runway are at least 0.85 * 3600 / rateSum seconds of virtual time
\* apart, whatever their categories.
C33_RunwaySpacing ==
    [][ call'.op = "GetUpdates" =>
          \A a \in DOMAIN DepartureRates : \A r \in DOMAIN DepartureRates[a] :
             LET before == spawnLog.departures[a][r]
                 after  == spawnLog'.departures[a][r]
             IN  /\ after.count <= before.count + 1
                 /\ (after.count # before.count /\ before.count > 0)
                      => 100 * SumRates(DepartureRates[a][r]) * (after.last - before.last)
                           >= 85 * 3600 ]_vars

\* an update has just created a departure of the runway, not its first, and
\* both categories of the runway have had departures
C33_SecondDeparture ==
    /\ call.op = "GetUpdates"
    /\ spawnLog.departures["KRNT"]["34"].count >= 2
    /\ spawnLog.departures["KRNT"]["34"].last = currentTime
    /\ lastDeparture[5] # 0
    /\ lastDeparture[6] # 0
    /\ NextDepartureSpawn["KRNT"]["34"] > currentTime

\* C34: every pending handoff record is the record of an aircraft of the
\* registry that has an outbound handoff controller: CancelHandoff, DropTrack
\* and DeleteAircraft leave no record behind.
C34_RecordsHaveAircraft ==
    \A c \in DOMAIN Handoffs :
       /\ c \in DOMAIN Aircraft
       /\ Aircraft[c].OutboundHandoffController # ""

\* C35: once a handoff has been cancelled the requester keeps the track: the
\* update that follows a successful CancelHandoff of a handed-off aircraft
\* changes neither its tracking controller nor its assigned altitude and
\* publishes no AcceptedHandoff for it.
C35_CancelledStaysCancelled ==
    [][ \A c \in CommandCallsigns :
          ( /\ call.op = "CancelHandoff" /\ call.callsign = c /\ ret = NoError
            /\ c \in DOMAIN Handoffs
            /\ call'.op = "GetUpdates"
            /\ c \in DOMAIN Aircraft /\ c \in DOMAIN Aircraft' )
          => /\ Aircraft'[c].TrackingController = Aircraft[c].TrackingController
             /\ Aircraft'[c].AssignedAltitude = Aircraft[c].AssignedAltitude
             /\ \A i \in DOMAIN posted' :
                   ~(posted'[i].ev = "AcceptedHandoff" /\ posted'[i].callsign = c) ]_vars

\* C36: in the protocol adapter, a callsign that has a tracking controller,
\* an outbound handoff or an inbound handoff is the callsign of an aircraft
\* of the registry, whatever commands, messages (track-initiated messages
\* for aircraft not seen included), clean-ups and disconnections came before.
C36_MapsWithinRegistry ==
    /\ DOMAIN trackingControllers \subseteq DOMAIN aircraft
    /\ DOMAIN outboundHandoffs \subseteq DOMAIN aircraft
    /\ DOMAIN inboundHandoffs \subseteq DOMAIN aircraft

\* an aircraft of the registry is tracked, handed off and offered at once
C36_InEveryMap ==
    /\ connection
    /\ \E c \in DOMAIN aircraft :
         /\ c \in DOMAIN trackingControllers
         /\ c \in DOMAIN outboundHandoffs
         /\ c \in DOMAIN inboundHandoffs

\* C37: a restart (Connect on a simulation that runs with aircraft) publishes
\* exactly one removal event for each aircraft of the old simulation, and the
\* registry of the new simulation holds none of them.
C37_RestartRemovesOnce ==
    [][ (call'.op = "Connect" /\ pc = "running") =>
           /\ \A c \in DOMAIN Aircraft :
                 EventCount(posted', Ev("RemovedAircraft", c)) = 1
           /\ DOMAIN Aircraft' \cap DOMAIN Aircraft = {} ]_vars

\* C38: a successful AssignHeading with a heading of 0 to 360, and a
\* successful TurnLeft or TurnRight by 0 to 360 degrees, leave the aircraft
\* with an assigned heading of 1 to 360, never 0 (0 stands for no assigned
\* heading).
C38_HeadingAssigned ==
    [][ \A c \in Callsigns :
          ( /\ call'.op \in {"AssignHeading", "TurnLeft", "TurnRight"}
            /\ call'.callsign = c
            /\ ret' = NoError )
          => Aircraft'[c].AssignedHeading \in 1 .. 360 ]_vars

\* C39: ClearedApproach is idempotent: called for the approach an aircraft
\* is already cleared for, it returns success and leaves the aircraft as it
\* is: no waypoint is appended again and the speeds are not touched.
C39_ClearedAgain ==
    [][ \A c \in Callsigns :
          ( /\ call'.op = "ClearedApproach" /\ call'.callsign = c
            /\ c \in DOMAIN Aircraft
            /\ Aircraft[c].ClearedApproach
            /\ Aircraft[c].Approach = call'.arg )
          => /\ ret' = NoError
             /\ Aircraft' = Aircraft ]_vars

\* an aircraft cleared for an approach and then given a speed has been
\* cleared for the approach again and keeps the speed
C39_SpeedKept ==
    /\ call.op = "ClearedApproach"
    /\ ret = NoError
    /\ \E c \in DOMAIN Aircraft :
         /\ call.callsign = c
         /\ Aircraft[c].ClearedApproach
         /\ Aircraft[c].Approach = call.arg
         /\ Aircraft[c].AssignedSpeed = 180
         /\ Len(Aircraft[c].Waypoints) > 2

\* C40: for a rate map without a negative rate, sampleRateMap returns the
\* exact sum of the rates; when a rate is positive it returns a key whose
\* rate is positive (a candidate of rate 0 is never the one selected), and
\* when all rates are 0 it returns "" with the sum 0.
C40_PositiveRateSelected ==
    call.op = "sampleRateMap" =>
       LET rates == call.arg
       IN  (\A k \in DOMAIN rates : rates[k] >= 0)
             => /\ ret.rateSum = SumRates(rates)
                /\ IF \E k \in DOMAIN rates : rates[k] > 0
                   THEN ret.item \in DOMAIN rates /\ rates[ret.item] > 0
                   ELSE ret.item = "" /\ ret.rateSum = 0

\* a map with two candidates of rate 0 and one of rate 10 has been sampled
C40_ZeroCandidatesPassed ==
    /\ call.op = "sampleRateMap"
    /\ call.arg["A"] = 0
    /\ call.arg["B"] = 10
    /\ call.arg["C"] = 0
    /\ ret = [item |-> "B", rateSum |-> 10]
====
